---- MODULE Spec2Model ----
(***************************************************************************)
(* tryke: static discovery of tests in Python sources and the run driver   *)
(* that reports them.  The syntax tree of ruff_python_ast is modelled as   *)
(* tagged records (field `kind`), Option<T> as a sequence of length 0 or   *)
(* 1, a String literal's value as a sequence of one-character strings and  *)
(* a path as the sequence of its components (a component is a number whose *)
(* order stands for the byte order of the component's name).               *)
(***************************************************************************)
EXTENDS Integers, Sequences, FiniteSets, TLC

VARIABLES
    fs,            \* the project tree: path -> [status, body]
    walk,          \* the order in which the directory walk yields the files
    collect_only,  \* the --collect-only flag of the command line
    pc,            \* position of main / run_test / run_collect_only
    tests,         \* Vec<TestItem> returned by discover()
    results,       \* Vec<TestResult> returned by fake_results
    idx,           \* number of results the loop of run_test has consumed
    passed,        \* run_test's counters
    failed,
    skipped,
    calls,         \* the callbacks the reporter has received, in order
    exit,          \* Result returned by main: <<>> while running
    reporter,      \* the reporter: its backend and the backend's fields
    sink,          \* how the writer of the reporter takes a write
    renderer,      \* the GraphicalReportHandler the build links
    output         \* what the sink has accepted, in order

vars == <<fs, walk, collect_only, pc, tests, results, idx, passed, failed,
          skipped, calls, exit, reporter, sink, renderer, output>>

----------------------------------------------------------------------------
(* Bounds of the explored inputs *)

MaxFiles == 2        \* files in the project tree of the driver
MaxFuncs == 3        \* top-level statements in the whole tree of the driver
MaxElapsed == 1      \* wall-clock milliseconds start.elapsed() may return
MaxStmts == 2        \* top-level statements of a file (shadowing)
MaxDecorators == 2   \* decorators on one function
MaxWraps == 1        \* call layers wrapped around a decorator target
MaxDecoArgs == 2     \* positional arguments of a call-form decorator
MaxExpectArgs == 3   \* positional arguments of an expect(...) entry call
MaxKw == 1           \* keyword arguments of a call
MaxDepth == 2        \* compound statements around an assertion
MaxNestArgs == 2     \* arguments of a call inside a composed expression
MaxMatcherArgs == 2  \* positional arguments of a matcher call
MaxCalls == 4        \* callbacks one caller makes on a reporter of its own
MaxAssertions == 2   \* runtime assertions handed to the diagnostic renderer
MaxText == 2         \* characters of a name, a module path or a message

----------------------------------------------------------------------------
(* Option<T> *)

None == <<>>
Some(v) == <<v>>
IsSome(o) == Len(o) > 0
Unwrap(o) == o[1]

(* or_else: the first option if it is Some, otherwise the second *)
OrElse(o, p) == IF IsSome(o) THEN o ELSE p

----------------------------------------------------------------------------
(* Syntax tree constructors (ruff_python_ast::Expr / Stmt) *)

Name(id) == [kind |-> "Name", id |-> id]
Attribute(value, attr) == [kind |-> "Attribute", value |-> value, attr |-> attr]
Keyword(arg, kwvalue) == [arg |-> arg, kwvalue |-> kwvalue]
Call(func, args, keywords, line) ==
    [kind |-> "Call", func |-> func, args |-> args, keywords |-> keywords,
     line |-> line]
StringLiteral(str) == [kind |-> "StringLiteral", str |-> str]
Tuple(elts) == [kind |-> "Tuple", elts |-> elts]
OtherExpr(src) == [kind |-> "OtherExpr", src |-> src]
BoolOp(values) == [kind |-> "BoolOp", values |-> values]
UnaryOp(operand) == [kind |-> "UnaryOp", operand |-> operand]
Compare(left, comparators) == [kind |-> "Compare", left |-> left, comparators |-> comparators]
Await(value) == [kind |-> "Await", value |-> value]
List(elts) == [kind |-> "List", elts |-> elts]

FunctionDef(name, decorator_list, body, line) ==
    [kind |-> "FunctionDef", name |-> name, decorator_list |-> decorator_list,
     body |-> body, line |-> line]
ClassDef(name) == [kind |-> "ClassDef", name |-> name]
Assign(targets, value) == [kind |-> "Assign", targets |-> targets, value |-> value]
AnnAssign(target) == [kind |-> "AnnAssign", target |-> target]
ExprStmt(value) == [kind |-> "Expr", value |-> value]
Return(ret) == [kind |-> "Return", ret |-> ret]
If(test, body, elif_else_clauses) ==
    [kind |-> "If", test |-> test, body |-> body,
     elif_else_clauses |-> elif_else_clauses]
ElifElseClause(ctest, body) == [ctest |-> ctest, body |-> body]
For(body, orelse) == [kind |-> "For", body |-> body, orelse |-> orelse]
While(body, orelse) == [kind |-> "While", body |-> body, orelse |-> orelse]
With(body) == [kind |-> "With", body |-> body]
Try(body, handlers, orelse, finalbody) ==
    [kind |-> "Try", body |-> body, handlers |-> handlers, orelse |-> orelse,
     finalbody |-> finalbody]
ExceptHandler(body) == [body |-> body]
OtherStmt(what) == [kind |-> "OtherStmt", what |-> what]

(* A source file as the file system and the parser present it *)
SourceFile(status, body) == [status |-> status, body |-> body]

----------------------------------------------------------------------------
(* Text helpers *)

Whitespace == {" ", "\t", "\n", "\r"}

(* str::lines().next().unwrap_or(""): the text before the first line feed, *)
(* without a carriage return that ends it                                  *)
FirstLine(text) ==
    LET nl == {i \in 1..Len(text) : text[i] = "\n"}
        cut == IF nl = {} THEN Len(text)
               ELSE (CHOOSE i \in nl : \A j \in nl : i <= j) - 1
        line == SubSeq(text, 1, cut)
    IN IF nl # {} /\ Len(line) > 0 /\ line[Len(line)] = "\r"
       THEN SubSeq(line, 1, Len(line) - 1) ELSE line

(* str::trim(): without leading and trailing whitespace *)
Trim(text) ==
    LET keep == {i \in 1..Len(text) : text[i] \notin Whitespace}
    IN IF keep = {} THEN <<>>
       ELSE SubSeq(text, CHOOSE i \in keep : \A j \in keep : i <= j,
                         CHOOSE i \in keep : \A j \in keep : i >= j)

(* The tokens an expression was parsed from, in order *)
RECURSIVE Unparse(_)
RECURSIVE UnparseList(_, _)
UnparseList(items, i) ==
    IF i > Len(items) THEN <<>>
    ELSE (IF i > 1 THEN <<",">> ELSE <<>>) \o items[i] \o UnparseList(items, i + 1)
Unparse(expr) ==
    CASE expr.kind = "Name" -> <<expr.id>>
      [] expr.kind = "Attribute" -> Unparse(expr.value) \o <<".", expr.attr>>
      [] expr.kind = "StringLiteral" -> <<"'">> \o expr.str \o <<"'">>
      [] expr.kind = "Call" ->
            Unparse(expr.func) \o <<"(">>
            \o UnparseList(
                  [i \in 1..Len(expr.args) |-> Unparse(expr.args[i])]
                  \o [i \in 1..Len(expr.keywords) |->
                        expr.keywords[i].arg \o <<"=">>
                        \o Unparse(expr.keywords[i].kwvalue)], 1)
            \o <<")">>
      [] expr.kind = "Tuple" ->
            UnparseList([i \in 1..Len(expr.elts) |-> Unparse(expr.elts[i])], 1)
      [] OTHER -> <<expr.src>>

(* The source text of the range of a node *)
src_text(expr) == Unparse(expr)

----------------------------------------------------------------------------
(* Paths: Ord for Path compares the components lexicographically *)

PathLess(p, q) ==
    \E k \in 1..Len(q) :
        /\ k - 1 <= Len(p)
        /\ \A j \in 1..(k - 1) : p[j] = q[j]
        /\ \/ k = Len(p) + 1
           \/ k <= Len(p) /\ p[k] < q[k]

(* The components of the file's path, the extension dropped, joined by     *)
(* ".": a component is the run of characters its number names              *)
RECURSIVE JoinDotted(_, _)
JoinDotted(file, i) ==
    IF i > Len(file) THEN <<>>
    ELSE (IF i > 1 THEN <<".">> ELSE <<>>) \o <<ToString(file[i])>>
         \o JoinDotted(file, i + 1)

path_to_module(file) == JoinDotted(file, 1)

(* str::to_owned of an identifier: a text of one run of characters, none   *)
(* of which a renderer treats specially                                    *)
to_owned(id) == <<id>>

----------------------------------------------------------------------------
(* Test identification *)

(* a check that does not count a function that carries decorators *)
is_locally_defined_undecorated(name, body) ==
    \E i \in 1..Len(body) :
        LET stmt == body[i] IN
        CASE stmt.kind = "FunctionDef" -> stmt.name = name /\ stmt.decorator_list = <<>>
          [] stmt.kind = "ClassDef" -> stmt.name = name
          [] stmt.kind = "Assign" ->
                \E j \in 1..Len(stmt.targets) :
                    stmt.targets[j].kind = "Name" /\ stmt.targets[j].id = name
          [] stmt.kind = "AnnAssign" ->
                stmt.target.kind = "Name" /\ stmt.target.id = name
          [] OTHER -> FALSE

is_locally_defined(name, body) ==
    \E i \in 1..Len(body) :
        LET stmt == body[i] IN
        CASE stmt.kind = "FunctionDef" -> stmt.name = name
          [] stmt.kind = "ClassDef" -> stmt.name = name
          [] stmt.kind = "Assign" ->
                \E j \in 1..Len(stmt.targets) :
                    stmt.targets[j].kind = "Name" /\ stmt.targets[j].id = name
          [] stmt.kind = "AnnAssign" ->
                stmt.target.kind = "Name" /\ stmt.target.id = name
          [] OTHER -> FALSE

(* a classifier that lets a local `test` suppress the qualified form too *)
RECURSIVE is_tryke_test_decorator_shadowed(_, _)
is_tryke_test_decorator_shadowed(expr, body) ==
    CASE expr.kind = "Attribute" ->
            /\ expr.attr = "test"
            /\ expr.value.kind = "Name"
            /\ expr.value.id = "tryke"
            /\ ~is_locally_defined("test", body)
      [] expr.kind = "Name" ->
            expr.id = "test" /\ ~is_locally_defined("test", body)
      [] expr.kind = "Call" -> is_tryke_test_decorator_shadowed(expr.func, body)
      [] OTHER -> FALSE

RECURSIVE is_tryke_test_decorator(_, _)
is_tryke_test_decorator(expr, body) ==
    CASE expr.kind = "Attribute" ->
            /\ expr.attr = "test"
            /\ expr.value.kind = "Name"
            /\ expr.value.id = "tryke"
      [] expr.kind = "Name" ->
            expr.id = "test" /\ ~is_locally_defined("test", body)
      [] expr.kind = "Call" -> is_tryke_test_decorator(expr.func, body)
      [] OTHER -> FALSE

----------------------------------------------------------------------------
(* Display name *)

IsNameKeyword(kw) ==
    /\ IsSome(kw.arg)
    /\ Unwrap(kw.arg) = "name"
    /\ kw.kwvalue.kind = "StringLiteral"

(* a lookup that prefers the positional argument to the name= keyword *)
extract_decorator_name_positional_first(expr) ==
    IF expr.kind # "Call" THEN None
    ELSE LET named == {i \in 1..Len(expr.keywords) : IsNameKeyword(expr.keywords[i])}
         IN IF Len(expr.args) > 0 /\ expr.args[1].kind = "StringLiteral"
            THEN Some(expr.args[1].str)
            ELSE IF named # {}
            THEN Some(expr.keywords[CHOOSE i \in named : \A j \in named : i <= j]
                        .kwvalue.str)
            ELSE None

extract_decorator_name(expr) ==
    IF expr.kind # "Call" THEN None
    ELSE LET named == {i \in 1..Len(expr.keywords) : IsNameKeyword(expr.keywords[i])}
         IN IF named # {}
            THEN Some(expr.keywords[CHOOSE i \in named : \A j \in named : i <= j]
                        .kwvalue.str)
            ELSE IF Len(expr.args) > 0 /\ expr.args[1].kind = "StringLiteral"
            THEN Some(expr.args[1].str)
            ELSE None

extract_docstring(body) ==
    IF /\ Len(body) > 0
       /\ body[1].kind = "Expr"
       /\ body[1].value.kind = "StringLiteral"
    THEN Some(Trim(FirstLine(body[1].value.str)))
    ELSE None

----------------------------------------------------------------------------
(* Assertion extraction *)

ExpectedAssertion(subject, matcher, negated, args, line, label) ==
    [subject |-> subject, matcher |-> matcher, negated |-> negated,
     args |-> args, line |-> line, label |-> label]

(* an entry call whose positional label beats its name= keyword *)
extract_expect_call_info_positional_first(call) ==
    LET func == call.func
        named == {i \in 1..Len(call.keywords) : IsNameKeyword(call.keywords[i])}
        nargs == Len(call.args)
    IN IF func.kind \notin {"Name", "Attribute"} THEN None
       ELSE LET is_expect == IF func.kind = "Name" THEN func.id = "expect"
                             ELSE func.attr = "expect"
            IN IF ~is_expect \/ nargs = 0 \/ nargs > 2 THEN None
               ELSE Some(<<src_text(call.args[1]),
                           OrElse(
                               IF nargs >= 2 /\ call.args[2].kind = "StringLiteral"
                               THEN Some(call.args[2].str)
                               ELSE None,
                               IF named # {}
                               THEN Some(call.keywords[
                                       CHOOSE i \in named : \A j \in named : i <= j]
                                       .kwvalue.str)
                               ELSE None)>>)

(* an entry call whose arity check counts the keyword arguments as well *)
extract_expect_call_info_counting_keywords(call) ==
    LET func == call.func
        named == {i \in 1..Len(call.keywords) : IsNameKeyword(call.keywords[i])}
        nargs == Len(call.args)
    IN IF func.kind \notin {"Name", "Attribute"} THEN None
       ELSE LET is_expect == IF func.kind = "Name" THEN func.id = "expect"
                             ELSE func.attr = "expect"
            IN IF ~is_expect \/ nargs = 0 \/ nargs + Len(call.keywords) > 2 THEN None
               ELSE Some(<<src_text(call.args[1]),
                           OrElse(
                               IF named # {}
                               THEN Some(call.keywords[
                                       CHOOSE i \in named : \A j \in named : i <= j]
                                       .kwvalue.str)
                               ELSE None,
                               IF nargs >= 2 /\ call.args[2].kind = "StringLiteral"
                               THEN Some(call.args[2].str)
                               ELSE None)>>)

(* Some(<<subject, label>>) for a recognized expect(...) entry call *)
extract_expect_call_info(call) ==
    LET func == call.func
        named == {i \in 1..Len(call.keywords) : IsNameKeyword(call.keywords[i])}
        nargs == Len(call.args)
    IN IF func.kind \notin {"Name", "Attribute"} THEN None
       ELSE LET is_expect == IF func.kind = "Name" THEN func.id = "expect"
                             ELSE func.attr = "expect"
            IN IF ~is_expect \/ nargs = 0 \/ nargs > 2 THEN None
               ELSE LET subject == src_text(call.args[1])
                        label ==
                            OrElse(
                                IF named # {}
                                THEN Some(call.keywords[
                                        CHOOSE i \in named : \A j \in named : i <= j]
                                        .kwvalue.str)
                                ELSE None,
                                IF nargs >= 2 /\ call.args[2].kind = "StringLiteral"
                                THEN Some(call.args[2].str)
                                ELSE None)
                    IN Some(<<subject, label>>)

(* an extraction that does not tell a negated chain from a plain one *)
try_extract_assertion_never_negated(call) ==
    IF call.func.kind # "Attribute" THEN None
    ELSE LET outer_attr == call.func
             matcher == outer_attr.attr
             recv == outer_attr.value
             args == [i \in 1..Len(call.args) |-> src_text(call.args[i])]
             Build(info) ==
                IF IsSome(info)
                THEN Some(ExpectedAssertion(Unwrap(info)[1], matcher, FALSE,
                                            args, call.line, Unwrap(info)[2]))
                ELSE None
         IN CASE recv.kind = "Call" -> Build(extract_expect_call_info(recv))
              [] recv.kind = "Attribute" /\ recv.attr = "not_" ->
                    IF recv.value.kind # "Call" THEN None
                    ELSE Build(extract_expect_call_info(recv.value))
              [] OTHER -> None

try_extract_assertion(call) ==
    IF call.func.kind # "Attribute" THEN None
    ELSE LET outer_attr == call.func
             matcher == outer_attr.attr
             recv == outer_attr.value
             args == [i \in 1..Len(call.args) |-> src_text(call.args[i])]
             Build(info, negated) ==
                IF IsSome(info)
                THEN Some(ExpectedAssertion(Unwrap(info)[1], matcher, negated,
                                            args, call.line, Unwrap(info)[2]))
                ELSE None
         IN CASE recv.kind = "Call" -> Build(extract_expect_call_info(recv), FALSE)
              [] recv.kind = "Attribute" /\ recv.attr = "not_" ->
                    IF recv.value.kind # "Call" THEN None
                    ELSE Build(extract_expect_call_info(recv.value), TRUE)
              [] OTHER -> None

RECURSIVE collect_assertions_from_expr(_, _)
RECURSIVE collect_assertions_from_exprs(_, _, _)
(* a `for` over expressions, from the i-th on *)
collect_assertions_from_exprs(exprs, i, out) ==
    IF i > Len(exprs) THEN out
    ELSE collect_assertions_from_exprs(
            exprs, i + 1, collect_assertions_from_expr(exprs[i], out))
(* a walk that lists a recognized call after the assertions in its arguments *)
collect_assertions_from_expr_arguments_first(expr, out) ==
    IF expr.kind # "Call" THEN out
    ELSE LET a == try_extract_assertion(expr)
         IN IF IsSome(a)
            THEN Append(collect_assertions_from_exprs(expr.args, 1, out), Unwrap(a))
            ELSE collect_assertions_from_exprs(
                    expr.args, 1, collect_assertions_from_expr(expr.func, out))

(* a scan that also looks at the operands of the expressions that are    *)
(* not calls, and at the receiver of a method call                       *)
collect_assertions_from_expr_operands(expr, out) ==
    CASE expr.kind = "Call" ->
            LET a == try_extract_assertion(expr)
            IN IF IsSome(a)
               THEN collect_assertions_from_exprs(expr.args, 1, Append(out, Unwrap(a)))
               ELSE collect_assertions_from_exprs(
                       expr.args, 1, collect_assertions_from_expr(expr.func, out))
      [] expr.kind = "Attribute" -> collect_assertions_from_expr(expr.value, out)
      [] expr.kind = "BoolOp" -> collect_assertions_from_exprs(expr.values, 1, out)
      [] expr.kind = "UnaryOp" -> collect_assertions_from_expr(expr.operand, out)
      [] expr.kind = "Compare" ->
            collect_assertions_from_exprs(<<expr.left>> \o expr.comparators, 1, out)
      [] expr.kind = "Await" -> collect_assertions_from_expr(expr.value, out)
      [] expr.kind \in {"List", "Tuple"} -> collect_assertions_from_exprs(expr.elts, 1, out)
      [] OTHER -> out

collect_assertions_from_expr(expr, out) ==
    IF expr.kind # "Call" THEN out
    ELSE LET a == try_extract_assertion(expr)
         IN IF IsSome(a)
            THEN collect_assertions_from_exprs(expr.args, 1, Append(out, Unwrap(a)))
            ELSE collect_assertions_from_exprs(
                    expr.args, 1, collect_assertions_from_expr(expr.func, out))

RECURSIVE collect_assertions_from_stmt(_, _)
RECURSIVE collect_assertions_from_stmts(_, _, _)
RECURSIVE collect_assertions_from_clauses(_, _, _)
(* a `for` over statements, from the i-th on *)
collect_assertions_from_stmts(stmts, i, out) ==
    IF i > Len(stmts) THEN out
    ELSE collect_assertions_from_stmts(
            stmts, i + 1, collect_assertions_from_stmt(stmts[i], out))
(* the `for` over the elif/else clauses of an `if` *)
collect_assertions_from_clauses(clauses, i, out) ==
    IF i > Len(clauses) THEN out
    ELSE LET clause == clauses[i]
             tested == IF IsSome(clause.ctest)
                       THEN collect_assertions_from_expr(Unwrap(clause.ctest), out)
                       ELSE out
         IN collect_assertions_from_clauses(
                clauses, i + 1, collect_assertions_from_stmts(clause.body, 1, tested))
collect_assertions_from_stmt(stmt, out) ==
    CASE stmt.kind = "Expr" -> collect_assertions_from_expr(stmt.value, out)
      [] stmt.kind = "Return" ->
            IF IsSome(stmt.ret) THEN collect_assertions_from_expr(Unwrap(stmt.ret), out)
            ELSE out
      [] stmt.kind = "If" ->
            collect_assertions_from_clauses(
                stmt.elif_else_clauses, 1,
                collect_assertions_from_stmts(
                    stmt.body, 1, collect_assertions_from_expr(stmt.test, out)))
      [] stmt.kind = "For" ->
            collect_assertions_from_stmts(stmt.body \o stmt.orelse, 1, out)
      [] stmt.kind = "While" ->
            collect_assertions_from_stmts(stmt.body \o stmt.orelse, 1, out)
      [] stmt.kind = "With" -> collect_assertions_from_stmts(stmt.body, 1, out)
      [] stmt.kind = "Try" ->
            collect_assertions_from_stmts(
                stmt.body \o stmt.orelse \o stmt.finalbody, 1, out)
      [] OTHER -> out

extract_expected_assertions(body) == collect_assertions_from_stmts(body, 1, <<>>)

----------------------------------------------------------------------------
(* Discovery *)

TestItem(name, module_path, file_path, line_number, display_name, assertions) ==
    [name |-> name, module_path |-> module_path, file_path |-> file_path,
     line_number |-> line_number, display_name |-> display_name,
     expected_assertions |-> assertions]

(* a filter that wants every decorator to be the marker *)
IsTestFunctionAll(stmt, body) ==
    /\ stmt.kind = "FunctionDef"
    /\ Len(stmt.decorator_list) > 0
    /\ \A j \in 1..Len(stmt.decorator_list) :
            is_tryke_test_decorator(stmt.decorator_list[j], body)

IsTestFunction(stmt, body) ==
    /\ stmt.kind = "FunctionDef"
    /\ \E j \in 1..Len(stmt.decorator_list) :
            is_tryke_test_decorator(stmt.decorator_list[j], body)

(* .find(..).and_then(extract_decorator_name).or_else(extract_docstring) *)
DisplayNameOf(func, body) ==
    LET hits == {j \in 1..Len(func.decorator_list) :
                    is_tryke_test_decorator(func.decorator_list[j], body)}
        first == CHOOSE j \in hits : \A k \in hits : j <= k
    IN OrElse(extract_decorator_name(func.decorator_list[first]),
              extract_docstring(func.body))

parse_tests_from_file(file, content) ==
    IF content.status # "ok" THEN <<>>
    ELSE LET body == content.body
             Keep(stmt) == IsTestFunction(stmt, body)
             funcs == SelectSeq(body, Keep)
         IN [i \in 1..Len(funcs) |->
                TestItem(to_owned(funcs[i].name), path_to_module(file), Some(file),
                         Some(funcs[i].line), DisplayNameOf(funcs[i], body),
                         extract_expected_assertions(funcs[i].body))]

(* a discovery that gives up at the first file it cannot read or parse *)
RECURSIVE FlatMapFilesUntilError(_, _, _)
FlatMapFilesUntilError(files, i, tree) ==
    IF i > Len(files) \/ tree[files[i]].status # "ok" THEN <<>>
    ELSE parse_tests_from_file(files[i], tree[files[i]])
         \o FlatMapFilesUntilError(files, i + 1, tree)

(* files.iter().flat_map(parse_tests_from_file).collect() *)
RECURSIVE FlatMapFiles(_, _, _)
FlatMapFiles(files, i, tree) ==
    IF i > Len(files) THEN <<>>
    ELSE parse_tests_from_file(files[i], tree[files[i]])
         \o FlatMapFiles(files, i + 1, tree)

(* collect_python_files yields the files in the order of the walk *)
collect_python_files(order) == order

(* discovery that forgets to sort the files *)
discover_unsorted(order, tree) ==
    FlatMapFiles(collect_python_files(order), 1, tree)

discover(order, tree) ==
    LET files == SortSeq(collect_python_files(order), PathLess)
    IN FlatMapFiles(files, 1, tree)

----------------------------------------------------------------------------
(* The run driver *)

Passed == [status |-> "passed"]
Failed(message, assertions) ==
    [status |-> "failed", message |-> message, assertions |-> assertions]
Skipped(reason) == [status |-> "skipped", reason |-> reason]

TestResult(test, outcome, duration) ==
    [test |-> test, outcome |-> outcome, duration |-> duration,
     stdout |-> "", stderr |-> ""]

RunSummary(p, f, s, duration) ==
    [passed |-> p, failed |-> f, skipped |-> s, duration |-> duration]

(* a driver that reports the results last to first *)
fake_results_reversed(items) ==
    [i \in 1..Len(items) |-> TestResult(items[Len(items) + 1 - i], Passed, 0)]

fake_results(items) ==
    [i \in 1..Len(items) |-> TestResult(items[i], Passed, 0)]

(* a loop whose first two arms are swapped *)
CountOutcomeSwapped(outcome, counts) ==
    CASE outcome.status = "passed" -> [counts EXCEPT !.failed = @ + 1]
      [] outcome.status = "failed" -> [counts EXCEPT !.passed = @ + 1]
      [] outcome.status = "skipped" -> [counts EXCEPT !.skipped = @ + 1]

(* The match of run_test's loop: the counters after one more result *)
CountOutcome(outcome, counts) ==
    CASE outcome.status = "passed" -> [counts EXCEPT !.passed = @ + 1]
      [] outcome.status = "failed" -> [counts EXCEPT !.failed = @ + 1]
      [] outcome.status = "skipped" -> [counts EXCEPT !.skipped = @ + 1]

(* What the reporter is handed *)
OnRunStart(items) == [cb |-> "on_run_start", tests |-> items]
OnTestComplete(result) == [cb |-> "on_test_complete", result |-> result]
OnRunComplete(summary) == [cb |-> "on_run_complete", summary |-> summary]
(* a collect-only mode that announces a run instead *)
OnCollectCompleteAsRunStart(items) == [cb |-> "on_run_start", tests |-> items]
OnCollectComplete(items) == [cb |-> "on_collect_complete", tests |-> items]

----------------------------------------------------------------------------
(* Diagnostic renderer *)

Assertion(expression, file, line, span_offset, span_length, expected, received) ==
    [expression |-> expression, afile |-> file, aline |-> line,
     span_offset |-> span_offset, span_length |-> span_length,
     expected |-> expected, received |-> received]

(* the labelled span lies inside the source the report shows *)
SpanInSource(assertion) ==
    assertion.span_offset + assertion.span_length <= Len(assertion.expression)

(* GraphicalReportHandler::render_report into a String.  The handler reads *)
(* the labelled span from the source; for a span that is not inside the    *)
(* source a "strict" handler returns an error, and a "lenient" one renders *)
(* the block without the snippet and its annotation.  source_name is the   *)
(* file label, or None where the block shows "<unknown>".                  *)
render_report(handler, source_name, assertion) ==
    IF ~SpanInSource(assertion) /\ handler = "strict" THEN None
    ELSE Some([w |-> "block", source_name |-> source_name,
               expression |-> assertion.expression,
               offset |-> assertion.span_offset, length |-> assertion.span_length,
               label |-> IF SpanInSource(assertion)
                         THEN Some(<<"expected ">> \o assertion.expected
                                   \o <<", received ">> \o assertion.received)
                         ELSE None])

(* the loop of render_assertions from the i-th assertion on *)
RECURSIVE RenderBlocks(_, _, _, _, _)
RenderBlocks(handler, file, assertions, i, state) ==
    IF i > Len(assertions) THEN state
    ELSE LET rendered == render_report(handler, file, assertions[i])
             buf == IF IsSome(rendered) THEN Append(state.buf, Unwrap(rendered))
                    ELSE state.buf
         IN RenderBlocks(handler, file, assertions, i + 1,
                         [buf |-> buf, failed |-> state.failed + 1])

(* a renderer that counts the blocks it wrote *)
render_assertions_counting_blocks(handler, file, assertions, buf) ==
    IF assertions = <<>> THEN buf
    ELSE LET end == RenderBlocks(handler, file, assertions, 1, [buf |-> buf, failed |-> 0])
         IN Append(end.buf, [w |-> "tally", failed |-> Len(end.buf) - Len(buf),
                             total |-> Len(assertions)])

(* a renderer that writes its tally for an empty list too *)
render_assertions_always_tally(handler, file, assertions, buf) ==
    LET end == RenderBlocks(handler, file, assertions, 1, [buf |-> buf, failed |-> 0])
    IN Append(end.buf, [w |-> "tally", failed |-> end.failed,
                        total |-> Len(assertions)])

render_assertions(handler, file, assertions, buf) ==
    IF assertions = <<>> THEN buf
    ELSE LET end == RenderBlocks(handler, file, assertions, 1, [buf |-> buf, failed |-> 0])
         IN Append(end.buf, [w |-> "tally", failed |-> end.failed,
                             total |-> Len(assertions)])

----------------------------------------------------------------------------
(* Format backends.  A callback yields the reporter after it and the       *)
(* pieces it hands to its writer, in order.                                *)

TextReporter(verbosity) ==
    [kind |-> "text", current_file |-> None, verbosity |-> verbosity]
JSONReporter == [kind |-> "json"]
DotReporter == [kind |-> "dot"]
JUnitReporter == [kind |-> "junit", results |-> <<>>]

Returned(self, pieces) == [reporter |-> self, pieces |-> pieces]

(* under a second the milliseconds, from a second on the seconds *)
format_duration(d) ==
    IF d < 1000 THEN [value |-> d, unit |-> "ms"] ELSE [value |-> d, unit |-> "s"]

(* the name a test is shown under: display_name.unwrap_or(name) *)
DisplayOf(test) ==
    IF IsSome(test.display_name) THEN Unwrap(test.display_name) ELSE test.name

RECURSIVE JoinArgs(_, _)
JoinArgs(args, i) ==
    IF i > Len(args) THEN <<>>
    ELSE (IF i > 1 THEN <<", ">> ELSE <<>>) \o args[i] \o JoinArgs(args, i + 1)

(* a marking that gives every expected assertion the passed glyph *)
write_expected_assertions_all_passed(result) ==
    [k \in 1..Len(result.test.expected_assertions) |->
        LET a == result.test.expected_assertions[k]
            assertion == <<"expect(">> \o a.subject \o <<").">>
                         \o (IF a.negated THEN <<"not_.">> ELSE <<>>)
                         \o <<a.matcher, "(">> \o JoinArgs(a.args, 1) \o <<")">>
        IN [w |-> "expected", glyph |-> "passed",
            text |-> IF IsSome(a.label) THEN Unwrap(a.label) ELSE assertion]]

write_expected_assertions(result) ==
    LET failed_lines ==
            IF result.outcome.status = "failed"
            THEN {result.outcome.assertions[j].aline :
                    j \in 1..Len(result.outcome.assertions)}
            ELSE {}
    IN [k \in 1..Len(result.test.expected_assertions) |->
        LET a == result.test.expected_assertions[k]
            assertion == <<"expect(">> \o a.subject \o <<").">>
                         \o (IF a.negated THEN <<"not_.">> ELSE <<>>)
                         \o <<a.matcher, "(">> \o JoinArgs(a.args, 1) \o <<")">>
        IN [w |-> "expected",
            glyph |-> IF a.line \in failed_lines THEN "failed" ELSE "passed",
            text |-> IF IsSome(a.label) THEN Unwrap(a.label) ELSE assertion]]

Banner == <<[w |-> "banner"], [w |-> "blank"]>>

ResultLine(glyph, result, timed) ==
    [w |-> "result", glyph |-> glyph, display |-> DisplayOf(result.test),
     duration |-> IF timed THEN Some(format_duration(result.duration)) ELSE None]

TextReporter_on_run_start(self, items) == Returned(self, Banner)

(* the head of on_test_complete: the separator and the header of a file *)
FileGroup(self, file) ==
    IF file # self.current_file
    THEN (IF IsSome(self.current_file) /\ self.verbosity # "quiet"
          THEN <<[w |-> "blank"]>> ELSE <<>>)
         \o (IF IsSome(file) /\ self.verbosity # "quiet"
             THEN <<[w |-> "file", path |-> Unwrap(file)]>> ELSE <<>>)
    ELSE <<>>

(* the match on the outcome in on_test_complete *)
OutcomeLines(self, result, handler) ==
    LET outcome == result.outcome
        expected == IF self.verbosity = "verbose"
                    THEN write_expected_assertions(result) ELSE <<>>
    IN CASE outcome.status = "passed" ->
                IF self.verbosity # "quiet"
                THEN <<ResultLine("passed", result, TRUE)>> \o expected
                ELSE <<>>
         [] outcome.status = "failed" ->
                <<ResultLine("failed", result, TRUE)>> \o expected
                \o (IF outcome.assertions # <<>>
                    THEN render_assertions(handler, result.test.file_path,
                                           outcome.assertions, <<>>)
                    ELSE <<>>)
         [] outcome.status = "skipped" ->
                IF self.verbosity # "quiet"
                THEN <<ResultLine("skipped", result, FALSE)>>
                ELSE <<>>

(* a reporter that compares with the first file it saw, not the previous *)
TextReporter_on_test_complete_first_file(self, result, handler) ==
    LET file == result.test.file_path
    IN Returned(IF IsSome(self.current_file) THEN self
                ELSE [self EXCEPT !.current_file = file],
                FileGroup(self, file) \o OutcomeLines(self, result, handler))

(* a reporter whose quiet mode silences failures as well *)
TextReporter_on_test_complete_quiet_failures(self, result, handler) ==
    LET file == result.test.file_path
    IN Returned([self EXCEPT !.current_file = file],
                IF self.verbosity = "quiet" THEN <<>>
                ELSE FileGroup(self, file) \o OutcomeLines(self, result, handler))

(* a reporter that follows the files only where it writes their headers *)
TextReporter_on_test_complete_quiet_untracked(self, result, handler) ==
    LET file == result.test.file_path
    IN Returned(IF self.verbosity = "quiet" THEN self
                ELSE [self EXCEPT !.current_file = file],
                FileGroup(self, file) \o OutcomeLines(self, result, handler))

TextReporter_on_test_complete(self, result, handler) ==
    LET file == result.test.file_path
    IN Returned([self EXCEPT !.current_file = file],
                FileGroup(self, file) \o OutcomeLines(self, result, handler))

(* the loop of on_collect_complete from the i-th test on *)
RECURSIVE CollectedLines(_, _, _)
CollectedLines(items, i, current_file) ==
    IF i > Len(items) THEN <<>>
    ELSE LET file == items[i].file_path
         IN (IF file # current_file
             THEN (IF IsSome(current_file) THEN <<[w |-> "blank"]>> ELSE <<>>)
                  \o (IF IsSome(file) THEN <<[w |-> "file", path |-> Unwrap(file)]>>
                      ELSE <<>>)
             ELSE <<>>)
            \o <<[w |-> "collected", display |-> DisplayOf(items[i])]>>
            \o CollectedLines(items, i + 1, file)

TextReporter_on_collect_complete(self, items) ==
    Returned(self,
             Banner \o CollectedLines(items, 1, None)
             \o <<[w |-> "blank"], [w |-> "count", collected |-> Len(items)]>>)

(* the summary block the Text and the Dot backend share *)
SummaryLines(summary) ==
    <<[w |-> "pass", count |-> summary.passed]>>
    \o (IF summary.failed > 0 THEN <<[w |-> "fail", count |-> summary.failed]>>
        ELSE <<>>)
    \o (IF summary.skipped > 0 THEN <<[w |-> "skip", count |-> summary.skipped]>>
        ELSE <<>>)
    \o <<[w |-> "ran", total |-> summary.passed + summary.failed + summary.skipped,
          duration |-> format_duration(summary.duration)]>>

TextReporter_on_run_complete(self, summary) ==
    Returned(self, <<[w |-> "blank"]>> \o SummaryLines(summary))

(* serde: the outcome as a status discriminator with a detail payload *)
SerializeOutcome(outcome) ==
    CASE outcome.status = "passed" -> [status |-> "passed"]
      [] outcome.status = "failed" ->
            [status |-> "failed",
             detail |-> [message |-> outcome.message, assertions |-> outcome.assertions]]
      [] outcome.status = "skipped" ->
            [status |-> "skipped", detail |-> [reason |-> outcome.reason]]

SerializeResult(result) ==
    [test |-> result.test, outcome |-> SerializeOutcome(result.outcome),
     duration |-> result.duration, stdout |-> result.stdout, stderr |-> result.stderr]

(* an event writer that forgets the line feed: the object joins the next *)
write_event_unterminated(event) == <<>>

(* the event object and the line feed after it: one line *)
write_event(event) == <<[w |-> "json", object |-> event]>>

JSONReporter_on_run_start(self, items) ==
    Returned(self, write_event([event |-> "run_start", tests |-> items]))

JSONReporter_on_test_complete(self, result) ==
    Returned(self, write_event([event |-> "test_complete",
                                result |-> SerializeResult(result)]))

JSONReporter_on_run_complete(self, summary) ==
    Returned(self, write_event([event |-> "run_complete", summary |-> summary]))

JSONReporter_on_collect_complete(self, items) ==
    Returned(self, write_event([event |-> "collect_complete", tests |-> items]))

DotReporter_on_run_start(self, items) == Returned(self, Banner)

(* a progress line that ends after every glyph *)
DotReporter_on_test_complete_line(self, result) ==
    LET ch == CASE result.outcome.status = "passed" -> "."
                [] result.outcome.status = "failed" -> "F"
                [] result.outcome.status = "skipped" -> "s"
    IN Returned(self, <<[w |-> "glyph", glyph |-> ch], [w |-> "blank"]>>)

DotReporter_on_test_complete(self, result) ==
    LET ch == CASE result.outcome.status = "passed" -> "."
                [] result.outcome.status = "failed" -> "F"
                [] result.outcome.status = "skipped" -> "s"
    IN Returned(self, <<[w |-> "glyph", glyph |-> ch]>>)

DotReporter_on_run_complete(self, summary) ==
    Returned(self, <<[w |-> "blank"], [w |-> "blank"]>> \o SummaryLines(summary))

(* the characters pushed for one character of the input *)
Escaped(ch) ==
    CASE ch = "&" -> <<"&", "a", "m", "p", ";">>
      [] ch = "<" -> <<"&", "l", "t", ";">>
      [] ch = ">" -> <<"&", "g", "t", ";">>
      [] ch = "\"" -> <<"&", "q", "u", "o", "t", ";">>
      [] ch = "'" -> <<"&", "a", "p", "o", "s", ";">>
      [] OTHER -> <<ch>>

(* the loop of xml_escape from the i-th character on *)
RECURSIVE EscapeFrom(_, _)
EscapeFrom(text, i) ==
    IF i > Len(text) THEN <<>> ELSE Escaped(text[i]) \o EscapeFrom(text, i + 1)

(* an attribute value written as it is *)
xml_escape_skipped(text) == text

xml_escape(text) == EscapeFrom(text, 1)

JUnitReporter_on_run_start(self, items) == Returned(self, <<>>)

JUnitReporter_on_test_complete(self, result) ==
    Returned([self EXCEPT !.results = Append(@, result)], <<>>)

(* the loop of on_run_complete from the i-th buffered result on *)
RECURSIVE TestcaseLines(_, _)
TestcaseLines(buffered, i) ==
    IF i > Len(buffered) THEN <<>>
    ELSE LET result == buffered[i]
             open == [w |-> "testcase", name |-> xml_escape(DisplayOf(result.test)),
                      classname |-> xml_escape(result.test.module_path),
                      time |-> result.duration,
                      empty |-> result.outcome.status = "passed"]
         IN (CASE result.outcome.status = "passed" -> <<open>>
               [] result.outcome.status = "failed" ->
                     <<open,
                       [w |-> "failure", message |-> xml_escape(result.outcome.message)],
                       [w |-> "testcase_end"]>>
               [] result.outcome.status = "skipped" ->
                     <<open, [w |-> "skipped"], [w |-> "testcase_end"]>>)
            \o TestcaseLines(buffered, i + 1)

(* a testsuite whose attributes are counted from the buffer *)
JUnitReporter_on_run_complete_counted(self, summary) ==
    LET Has(status) == {i \in 1..Len(self.results) : self.results[i].outcome.status = status}
    IN Returned(self,
             <<[w |-> "xml"],
               [w |-> "testsuite", tests |-> Len(self.results),
                failures |-> Cardinality(Has("failed")),
                skipped |-> Cardinality(Has("skipped")),
                time |-> summary.duration]>>
             \o TestcaseLines(self.results, 1)
             \o <<[w |-> "testsuite_end"]>>)

(* a testsuite that takes the results out of the buffer *)
JUnitReporter_on_run_complete_drained(self, summary) ==
    Returned([self EXCEPT !.results = <<>>],
             <<[w |-> "xml"],
               [w |-> "testsuite",
                tests |-> summary.passed + summary.failed + summary.skipped,
                failures |-> summary.failed, skipped |-> summary.skipped,
                time |-> summary.duration]>>
             \o TestcaseLines(self.results, 1)
             \o <<[w |-> "testsuite_end"]>>)

JUnitReporter_on_run_complete(self, summary) ==
    Returned(self,
             <<[w |-> "xml"],
               [w |-> "testsuite",
                tests |-> summary.passed + summary.failed + summary.skipped,
                failures |-> summary.failed, skipped |-> summary.skipped,
                time |-> summary.duration]>>
             \o TestcaseLines(self.results, 1)
             \o <<[w |-> "testsuite_end"]>>)

(* on_collect_complete of a backend that does not define it *)
Reporter_on_collect_complete(self, items) == Returned(self, <<>>)

(* dyn Reporter: the callbacks of the backend main has chosen *)
on_run_start(self, items) ==
    CASE self.kind = "text" -> TextReporter_on_run_start(self, items)
      [] self.kind = "json" -> JSONReporter_on_run_start(self, items)
      [] self.kind = "dot" -> DotReporter_on_run_start(self, items)
      [] self.kind = "junit" -> JUnitReporter_on_run_start(self, items)

on_test_complete(self, result, handler) ==
    CASE self.kind = "text" -> TextReporter_on_test_complete(self, result, handler)
      [] self.kind = "json" -> JSONReporter_on_test_complete(self, result)
      [] self.kind = "dot" -> DotReporter_on_test_complete(self, result)
      [] self.kind = "junit" -> JUnitReporter_on_test_complete(self, result)

on_run_complete(self, summary) ==
    CASE self.kind = "text" -> TextReporter_on_run_complete(self, summary)
      [] self.kind = "json" -> JSONReporter_on_run_complete(self, summary)
      [] self.kind = "dot" -> DotReporter_on_run_complete(self, summary)
      [] self.kind = "junit" -> JUnitReporter_on_run_complete(self, summary)

on_collect_complete(self, items) ==
    CASE self.kind = "text" -> TextReporter_on_collect_complete(self, items)
      [] self.kind = "json" -> JSONReporter_on_collect_complete(self, items)
      [] self.kind = "dot" -> Reporter_on_collect_complete(self, items)
      [] self.kind = "junit" -> Reporter_on_collect_complete(self, items)

(* The sink: what it does with the writes of one callback *)
Accepts(mode) ==
    CASE mode = "accepts" -> {TRUE}
      [] mode = "rejects" -> {FALSE}
      [] mode = "flaky" -> BOOLEAN

(* writes whose error is unwrapped: the callback panics on a rejected one *)
WriteUnwrapped(pieces, accepted) ==
    [written |-> IF accepted THEN pieces ELSE <<>>, returned |-> accepted]

(* let _ = write!(..): what reaches the sink, and whether the callback     *)
(* returns; the error of a rejected write is dropped                       *)
WriteIgnoringErrors(pieces, accepted) ==
    [written |-> IF accepted THEN pieces ELSE <<>>, returned |-> TRUE]

(* the callback `returned` has run on the reporter: its writes go to the   *)
(* sink, and its caller goes on at `to` unless the callback panicked       *)
Deliver(returned, to, result) ==
    \E accepted \in Accepts(sink) :
        LET write == WriteIgnoringErrors(returned.pieces, accepted)
        IN /\ reporter' = returned.reporter
           /\ output' = output \o write.written
           /\ IF write.returned THEN pc' = to /\ exit' = result
              ELSE pc' = "panicked" /\ exit' = Some("Panic")

(* run_test up to its loop: discovery, on_run_start, the executor *)
RunTestStart ==
    /\ pc = "main"
    /\ ~collect_only
    /\ LET found == discover(walk, fs) IN
        /\ tests' = found
        /\ calls' = Append(calls, OnRunStart(found))
        /\ results' = fake_results(found)
        /\ Deliver(on_run_start(reporter, found), "loop", exit)
    /\ passed' = 0
    /\ failed' = 0
    /\ skipped' = 0
    /\ idx' = 0
    /\ UNCHANGED <<fs, walk, collect_only, sink, renderer>>

(* one iteration of run_test's loop *)
RunTestStep ==
    /\ pc = "loop"
    /\ idx < Len(results)
    /\ LET result == results[idx + 1]
           counts == CountOutcome(result.outcome,
                        [passed |-> passed, failed |-> failed, skipped |-> skipped])
       IN /\ passed' = counts.passed
          /\ failed' = counts.failed
          /\ skipped' = counts.skipped
          /\ calls' = Append(calls, OnTestComplete(result))
          /\ Deliver(on_test_complete(reporter, result, renderer), pc, exit)
    /\ idx' = idx + 1
    /\ UNCHANGED <<fs, walk, collect_only, tests, results, sink, renderer>>

(* run_test after its loop: on_run_complete, Ok(()) *)
RunTestComplete ==
    /\ pc = "loop"
    /\ idx = Len(results)
    /\ \E elapsed \in 0..MaxElapsed :
        LET summary == RunSummary(passed, failed, skipped, elapsed)
        IN /\ calls' = Append(calls, OnRunComplete(summary))
           /\ Deliver(on_run_complete(reporter, summary), "done", Some("Ok"))
    /\ UNCHANGED <<fs, walk, collect_only, tests, results, idx, passed, failed, skipped,
                   sink, renderer>>

RunCollectOnly ==
    /\ pc = "main"
    /\ collect_only
    /\ LET found == discover(walk, fs) IN
        /\ tests' = found
        /\ calls' = Append(calls, OnCollectComplete(found))
        /\ Deliver(on_collect_complete(reporter, found), "done", Some("Ok"))
    /\ UNCHANGED <<fs, walk, results, idx, passed, failed, skipped, collect_only,
                   sink, renderer>>

Next ==
    \/ RunTestStart
    \/ RunTestStep
    \/ RunTestComplete
    \/ RunCollectOnly

(* main's match on --reporter, with the verbosity of the log level *)
MakeReporter(format, verbosity) ==
    CASE format = "text" -> TextReporter(verbosity)
      [] format = "json" -> JSONReporter
      [] format = "dot" -> DotReporter
      [] format = "junit" -> JUnitReporter

(* The state main starts from, for a project tree, a walk order, a command *)
(* line and a standard output                                              *)
StartWith(tree, order, format, verbosity, stdout) ==
    /\ fs = tree
    /\ walk = order
    /\ collect_only \in BOOLEAN
    /\ pc = "main"
    /\ tests = <<>>
    /\ results = <<>>
    /\ idx = 0
    /\ passed = 0
    /\ failed = 0
    /\ skipped = 0
    /\ calls = <<>>
    /\ exit = None
    /\ reporter = MakeReporter(format, verbosity)
    /\ sink = stdout
    /\ renderer \in {"strict", "lenient"}
    /\ output = <<>>

(* The state main starts from with the default command line (the text      *)
(* reporter, the default log level) and a standard output that accepts     *)
(* every write                                                             *)
Start(tree, order) ==
    /\ StartWith(tree, order, "text", "normal", "accepts")
    /\ renderer = "lenient"

----------------------------------------------------------------------------
(* Project trees of the driver: up to MaxFiles files holding up to MaxFuncs *)
(* top-level statements between them, walked in any order                  *)

SeqsUpTo(S, n) == UNION {[1..k -> S] : k \in 0..n}

Pass == OtherStmt("pass")

FnName(i) == "f" \o ToString(i)

(* the i-th statement of a file: a test, a plain function or a rebinding *)
DriverStmt(choice, i) ==
    CASE choice = "test" -> FunctionDef(FnName(i), <<Name("test")>>, <<Pass>>, 3 * i - 2)
      [] choice = "plain" -> FunctionDef(FnName(i), <<>>, <<Pass>>, 3 * i - 2)
      [] choice = "rebind" -> Assign(<<Name("test")>>, OtherExpr("None"))

DriverFiles ==
    {SourceFile("ok", [i \in 1..Len(sh) |-> DriverStmt(sh[i], i)]) :
        sh \in SeqsUpTo({"test", "plain", "rebind"}, MaxFuncs)}
    \cup {SourceFile("unreadable", <<>>), SourceFile("syntax_error", <<>>)}

\* a.py, a/b.py, b.py with the components a = 1, a.py = 2, b.py = 3
DriverPaths == {<<2>>, <<1, 3>>, <<3>>}

RECURSIVE TotalStmts(_, _)
TotalStmts(tree, paths) ==
    IF paths = {} THEN 0
    ELSE LET p == CHOOSE q \in paths : TRUE
         IN Len(tree[p].body) + TotalStmts(tree, paths \ {p})

DriverTrees ==
    UNION {{t \in [P -> DriverFiles] : TotalStmts(t, P) <= MaxFuncs} :
            P \in {Q \in SUBSET DriverPaths : Cardinality(Q) <= MaxFiles}}

WalkOrders(P) ==
    {o \in [1..Cardinality(P) -> P] : \A i, j \in 1..Cardinality(P) : o[i] = o[j] => i = j}

Init ==
    \E tree \in DriverTrees : \E order \in WalkOrders(DOMAIN tree) : Start(tree, order)

Spec == Init /\ [][Next]_vars

----------------------------------------------------------------------------
(* Properties of the run driver *)

CallsOf(cb) == {i \in 1..Len(calls) : calls[i].cb = cb}

(* C1: in a test run the reporter receives on_run_start exactly once and   *)
(* first, then on_test_complete exactly once per discovered test in the    *)
(* order of discovery, then on_run_complete exactly once and last.         *)
C1_RunCallbackOrder ==
    ~collect_only =>
        /\ Len(calls) <= Len(tests) + 2
        /\ pc = "done" => Len(calls) = Len(tests) + 2
        /\ \A i \in 1..Len(calls) :
            /\ calls[i].cb = "on_run_start" <=> i = 1
            /\ calls[i].cb = "on_test_complete" <=> (2 <= i /\ i <= Len(tests) + 1)
            /\ calls[i].cb = "on_run_complete" <=> i = Len(tests) + 2
            /\ calls[i].cb = "on_test_complete" => calls[i].result.test = tests[i - 1]
            /\ calls[i].cb = "on_run_start" => calls[i].tests = tests

C1_Witness ==
    /\ ~collect_only
    /\ pc = "done"
    /\ Len(tests) >= 2
    /\ tests[1] # tests[2]

(* C2: in collect-only mode the reporter receives exactly one              *)
(* on_collect_complete carrying the discovered tests and none of the run's *)
(* callbacks; no invocation mixes the two sequences.                       *)
C2_CollectOnlyExclusive ==
    /\ collect_only =>
        /\ CallsOf("on_collect_complete") = 1..Len(calls)
        /\ Len(calls) <= 1
        /\ pc = "done" =>
            /\ Len(calls) = 1
            /\ calls[1].tests = tests
            /\ tests = FlatMapFiles(SortSeq(walk, PathLess), 1, fs)
    /\ ~collect_only => CallsOf("on_collect_complete") = {}
    /\ \/ CallsOf("on_collect_complete") = {}
       \/ CallsOf("on_run_start") \cup CallsOf("on_test_complete")
            \cup CallsOf("on_run_complete") = {}

C2_Witness ==
    /\ collect_only
    /\ pc = "done"
    /\ Len(calls) = 1
    /\ Len(calls[1].tests) >= 1

ReportedWith(status) ==
    {i \in CallsOf("on_test_complete") : calls[i].result.outcome.status = status}

(* C3: the RunSummary handed to on_run_complete counts the results that    *)
(* were reported through on_test_complete: passed, failed and skipped are  *)
(* the numbers of Passed, Failed and Skipped results, and they add up to   *)
(* the number of on_test_complete calls.                                   *)
C3_SummaryCounts ==
    \A i \in CallsOf("on_run_complete") :
        LET summary == calls[i].summary IN
        /\ summary.passed = Cardinality(ReportedWith("passed"))
        /\ summary.failed = Cardinality(ReportedWith("failed"))
        /\ summary.skipped = Cardinality(ReportedWith("skipped"))
        /\ summary.passed + summary.failed + summary.skipped
             = Cardinality(CallsOf("on_test_complete"))

C3_Witness ==
    /\ CallsOf("on_run_complete") # {}
    /\ Cardinality(CallsOf("on_test_complete")) >= 2

----------------------------------------------------------------------------
(* Properties of discovery *)

(* the names an assignment target binds *)
BoundBy(target) ==
    CASE target.kind = "Name" -> {target.id}
      [] target.kind = "Tuple" ->
            {target.elts[j].id :
                j \in {k \in 1..Len(target.elts) : target.elts[k].kind = "Name"}}
      [] OTHER -> {}

(* the name `test` is bound at the top level of the module: by a function  *)
(* or class definition, a plain assignment or an annotated assignment      *)
TestRebound(body) ==
    \E i \in 1..Len(body) :
        \/ body[i].kind \in {"FunctionDef", "ClassDef"} /\ body[i].name = "test"
        \/ body[i].kind = "Assign"
            /\ \E j \in 1..Len(body[i].targets) : "test" \in BoundBy(body[i].targets[j])
        \/ body[i].kind = "AnnAssign" /\ "test" \in BoundBy(body[i].target)

(* a target of a top-level assignment binds `test` by destructuring *)
TestDestructured(body) ==
    \E i \in 1..Len(body) :
        /\ body[i].kind = "Assign"
        /\ \E j \in 1..Len(body[i].targets) :
            body[i].targets[j].kind = "Tuple" /\ "test" \in BoundBy(body[i].targets[j])

DecoratorsOf(stmt) == {stmt.decorator_list[j] : j \in 1..Len(stmt.decorator_list)}

BareDecorated(stmt) == stmt.kind = "FunctionDef" /\ Name("test") \in DecoratorsOf(stmt)

ItemsOfFile(file) ==
    LET FromFile(item) == item.file_path = Some(file) IN SelectSeq(tests, FromFile)

(* C4: a file whose N top-level functions carry the bare marker, with no   *)
(* shadowing, yields exactly those N items in definition order; the items  *)
(* of an earlier-sorted file all precede those of a later-sorted file.     *)
C4_DefinitionAndFileOrder ==
    pc # "main" =>
        /\ \A file \in DOMAIN fs :
            fs[file].status = "ok" /\ ~TestRebound(fs[file].body) =>
                LET marked == SelectSeq(fs[file].body, BareDecorated)
                    items == ItemsOfFile(file)
                IN /\ Len(items) = Len(marked)
                   /\ \A k \in 1..Len(items) :
                        /\ items[k].name = <<marked[k].name>>
                        /\ items[k].line_number = Some(marked[k].line)
        /\ \A i, j \in 1..Len(tests) :
            i < j => \/ tests[i].file_path = tests[j].file_path
                     \/ PathLess(Unwrap(tests[i].file_path), Unwrap(tests[j].file_path))

C4_Witness ==
    /\ pc # "main"
    /\ Len(walk) = 2
    /\ PathLess(walk[2], walk[1])
    /\ Len(ItemsOfFile(walk[1])) = 2
    /\ Len(ItemsOfFile(walk[2])) = 1

----------------------------------------------------------------------------
(* Shadowing: one file of up to MaxStmts top-level statements, each a      *)
(* binding statement or a function with one decorator                      *)

TheFile == <<3>>

ShadowChoices ==
    {"def_test", "class_test", "assign_test", "assign_chain", "assign_tuple",
     "ann_test", "assign_other", "assign_attr", "ann_other", "class_other", "import",
     "bare", "bare_named_test", "tryke_test", "pytest_test", "tryke_skip",
     "fixture", "dotted"}

ShadowStmt(choice, i) ==
    LET line == 3 * i - 2
        Fn(decorator) == FunctionDef(FnName(i), <<decorator>>, <<Pass>>, line)
    IN CASE choice = "def_test" -> FunctionDef("test", <<>>, <<Pass>>, line)
         [] choice = "class_test" -> ClassDef("test")
         [] choice = "assign_test" -> Assign(<<Name("test")>>, OtherExpr("None"))
         [] choice = "assign_chain" ->
                Assign(<<Name("other"), Name("test")>>, OtherExpr("None"))
         [] choice = "assign_tuple" ->
                Assign(<<Tuple(<<Name("test"), Name("other")>>)>>, OtherExpr("pair()"))
         [] choice = "ann_test" -> AnnAssign(Name("test"))
         [] choice = "assign_other" -> Assign(<<Name("other")>>, OtherExpr("None"))
         [] choice = "assign_attr" ->
                Assign(<<Attribute(Name("other"), "test")>>, OtherExpr("None"))
         [] choice = "ann_other" -> AnnAssign(Name("other"))
         [] choice = "class_other" -> ClassDef("other")
         [] choice = "import" -> OtherStmt("from tryke import test")
         [] choice = "bare" -> Fn(Name("test"))
         [] choice = "bare_named_test" ->
                FunctionDef("test", <<Name("test")>>, <<Pass>>, line)
         [] choice = "tryke_test" -> Fn(Attribute(Name("tryke"), "test"))
         [] choice = "pytest_test" -> Fn(Attribute(Name("pytest"), "test"))
         [] choice = "tryke_skip" -> Fn(Attribute(Name("tryke"), "skip"))
         [] choice = "fixture" -> Fn(Name("fixture"))
         [] choice = "dotted" ->
                Fn(Attribute(Attribute(Name("pkg"), "tryke"), "test"))

ShadowBodies ==
    {[i \in 1..Len(sh) |-> ShadowStmt(sh[i], i)] : sh \in SeqsUpTo(ShadowChoices, MaxStmts)}

(* main started in a tree that holds the one file `body` *)
StartOneFile(body) ==
    Start([p \in {TheFile} |-> SourceFile("ok", body)], <<TheFile>>)

InitShadow == \E body \in ShadowBodies : StartOneFile(body)

SpecShadow == InitShadow /\ [][Next]_vars

(* the body of the one file, and whether discovery returned this function *)
TheBody == fs[TheFile].body

Discovered(func) ==
    \E k \in 1..Len(tests) :
        tests[k].name = <<func.name>> /\ tests[k].line_number = Some(func.line)

TopLevelFunctions ==
    {TheBody[i] : i \in {j \in 1..Len(TheBody) : TheBody[j].kind = "FunctionDef"}}

(* a decorator of the form owner.test with a bare name for owner *)
QualifiedByName(decorator) ==
    /\ decorator.kind = "Attribute"
    /\ decorator.attr = "test"
    /\ decorator.value.kind = "Name"

(* C5: a bare `test` decorator marks a top-level function as a test unless *)
(* `test` is bound at module top level (function, class, plain or          *)
(* annotated assignment) anywhere in the file, before or after; when it is *)
(* bound, no function carrying only the bare decorator is a test.          *)
C5_BareMarkerUnlessRebound ==
    pc # "main" =>
        \A func \in TopLevelFunctions :
            Name("test") \in DecoratorsOf(func) =>
                /\ ~TestRebound(TheBody) => Discovered(func)
                /\ TestRebound(TheBody) /\ DecoratorsOf(func) = {Name("test")}
                        => ~Discovered(func)

(* What the code does about C5: the claim's rule, for the files in which   *)
(* no assignment binds `test` by destructuring.                            *)
BareMarkerUnlessNameRebound ==
    ~TestDestructured(TheBody) => C5_BareMarkerUnlessRebound

(* C6 as stated: owner.test classifies the function as a test for any bare *)
(* name owner, whether or not `test` is redefined at module top level.     *)
C6_AnyOwnerQualifies ==
    pc # "main" =>
        \A func \in TopLevelFunctions :
            (\E d \in DecoratorsOf(func) : QualifiedByName(d)) => Discovered(func)

(* C6, amended: tryke.test (the owner being the bare name `tryke`)         *)
(* classifies the function as a test whether or not `test` is redefined at *)
(* module top level; owner.test with another owner does not classify.      *)
C6_TrykeOwnerQualifies ==
    pc # "main" =>
        \A func \in TopLevelFunctions :
            /\ Attribute(Name("tryke"), "test") \in DecoratorsOf(func) => Discovered(func)
            /\ (\A d \in DecoratorsOf(func) : QualifiedByName(d) /\ d.value.id # "tryke")
                /\ DecoratorsOf(func) # {}
                    => ~Discovered(func)

C6_Witness ==
    /\ pc # "main"
    /\ TestRebound(TheBody)
    /\ \E func \in TopLevelFunctions :
        /\ Attribute(Name("tryke"), "test") \in DecoratorsOf(func)
        /\ Discovered(func)

----------------------------------------------------------------------------
(* Decorator forms: one function carrying up to MaxDecorators decorators,  *)
(* each a target under up to MaxWraps call layers, in a file that may      *)
(* rebind `test` before or after the function                              *)

Lit(char) == StringLiteral(<<char>>)

DecorTargets ==
    {Name("test"), Attribute(Name("tryke"), "test"), Attribute(Name("pytest"), "test"),
     Name("fixture"), Attribute(Name("tryke"), "skip")}

(* the innermost call layer passes arguments, the outer ones pass none *)
RECURSIVE Wrapped(_, _)
Wrapped(target, layers) ==
    IF layers = 0 THEN target
    ELSE Call(Wrapped(target, layers - 1),
              IF layers = 1 THEN <<Lit("p")>> ELSE <<>>,
              IF layers = 1 THEN <<Keyword(Some("name"), Lit("k"))>> ELSE <<>>,
              1)

DecorForms == {Wrapped(t, k) : t \in DecorTargets, k \in 0..MaxWraps}

Rebind == Assign(<<Name("test")>>, OtherExpr("None"))

(* the file: the function `func`, with `test` rebound as `where` says *)
FileAround(func, where) ==
    CASE where = "before" -> <<Rebind, func>>
      [] where = "after" -> <<func, Rebind>>
      [] OTHER -> <<func>>

InitDecor ==
    \E ds \in SeqsUpTo(DecorForms, MaxDecorators) :
        \E where \in {"none", "before", "after"} :
            StartOneFile(FileAround(FunctionDef("f1", ds, <<Pass>>, 1), where))

SpecDecor == InitDecor /\ [][Next]_vars

(* the call target of a decorator: the expression under its call layers *)
RECURSIVE CallTarget(_)
CallTarget(decorator) ==
    IF decorator.kind = "Call" THEN CallTarget(decorator.func) ELSE decorator

(* the bare rule and the qualified rule, for the one file *)
BareRule(target) == target = Name("test") /\ ~TestRebound(TheBody)
QualifiedRule(target) == target = Attribute(Name("tryke"), "test")
Classifies(decorator) ==
    BareRule(CallTarget(decorator)) \/ QualifiedRule(CallTarget(decorator))

(* C7: a call-form decorator classifies exactly as its call target does    *)
(* under the bare and qualified rules, and a top-level function is a test  *)
(* if and only if at least one of its decorators classifies true, whatever *)
(* its other decorators are.                                               *)
C7_CallFormAndAnyDecorator ==
    pc # "main" =>
        \A func \in TopLevelFunctions :
            Discovered(func) <=> \E d \in DecoratorsOf(func) : Classifies(d)

C7_Witness ==
    /\ pc # "main"
    /\ \E func \in TopLevelFunctions :
        /\ Len(func.decorator_list) = 2
        /\ func.decorator_list[1] = Name("fixture")
        /\ func.decorator_list[2].kind = "Call"
        /\ func.decorator_list[2].args # <<>>
        /\ Classifies(func.decorator_list[2])
        /\ Discovered(func)

----------------------------------------------------------------------------
(* Display names: one test whose marker takes up to MaxDecoArgs positional *)
(* and up to MaxKw keyword arguments, alone or next to another decorator,  *)
(* over bodies with and without a docstring                                *)

(* keyword lists: no keyword is repeated in one call *)
KeywordLists(kws, n) ==
    {s \in SeqsUpTo(kws, n) : \A i, j \in 1..Len(s) : s[i].arg = s[j].arg => i = j}

MarkerArgs == {Lit("p"), Lit("q"), OtherExpr("x")}

MarkerKeywords ==
    {Keyword(Some("name"), Lit("k")), Keyword(Some("name"), OtherExpr("y")),
     Keyword(Some("label"), Lit("o"))}

MarkerForms ==
    {Name("test")}
    \cup {Call(Name("test"), args, kws, 1) :
            args \in SeqsUpTo(MarkerArgs, MaxDecoArgs),
            kws \in KeywordLists(MarkerKeywords, MaxKw)}

(* the decorator list around the marker *)
DecoratorsAround(marker, how) ==
    CASE how = "after_other" ->
            <<Call(Name("fixture"), <<Lit("n")>>, <<Keyword(Some("name"), Lit("m"))>>, 1),
              marker>>
      [] how = "before_second" ->
            <<marker, Call(Name("test"), <<>>, <<Keyword(Some("name"), Lit("s"))>>, 2)>>
      [] OTHER -> <<marker>>

DocBodies ==
    {<<Pass>>,
     <<ExprStmt(StringLiteral(<<" ", "d", " ">>)), Pass>>,
     <<ExprStmt(StringLiteral(<<"\t", "d", "\r", "\n", "e">>))>>,
     <<ExprStmt(StringLiteral(<<>>))>>,
     <<ExprStmt(StringLiteral(<<"\n", "d">>))>>,
     <<Pass, ExprStmt(Lit("d"))>>,
     <<ExprStmt(OtherExpr("f'd'")), Pass>>}

InitName ==
    \E marker \in MarkerForms :
        \E how \in {"alone", "after_other", "before_second"} :
            \E body \in DocBodies :
                StartOneFile(<<FunctionDef("f1", DecoratorsAround(marker, how), body, 1)>>)

SpecName == InitName /\ [][Next]_vars

(* `line` is the first line of `text` without the whitespace around it *)
IsTrimmedFirstLine(line, text) ==
    LET feeds == {i \in 1..Len(text) : text[i] = "\n"}
        end == IF feeds = {} THEN Len(text) + 1
               ELSE CHOOSE i \in feeds : \A j \in feeds : i <= j
    IN \E from \in 1..end : \E to \in 0..(end - 1) :
        /\ from <= to + 1
        /\ line = SubSeq(text, from, to)
        /\ \A i \in (1..(from - 1)) \cup ((to + 1)..(end - 1)) : text[i] \in Whitespace
        /\ line # <<>> => line[1] \notin Whitespace /\ line[Len(line)] \notin Whitespace

(* the display name the precedence gives `func`, whose classifying         *)
(* decorator (the first that classifies) is `marker`                       *)
HasDisplayName(name, func, marker) ==
    LET named == IF marker.kind # "Call" THEN {}
                 ELSE {kw \in {marker.keywords[j] : j \in 1..Len(marker.keywords)} :
                         kw.arg = Some("name") /\ kw.kwvalue.kind = "StringLiteral"}
        stmts == func.body
    IN IF named # {}
       THEN \E kw \in named : name = Some(kw.kwvalue.str)
       ELSE IF marker.kind = "Call" /\ marker.args # <<>>
               /\ marker.args[1].kind = "StringLiteral"
       THEN name = Some(marker.args[1].str)
       ELSE IF stmts # <<>> /\ stmts[1].kind = "Expr"
               /\ stmts[1].value.kind = "StringLiteral"
       THEN IsSome(name) /\ IsTrimmedFirstLine(Unwrap(name), stmts[1].value.str)
       ELSE name = None

(* C8: the display name is, in strict precedence, the literal-string name= *)
(* keyword of the classifying call-form decorator, else its first          *)
(* positional argument when that is a literal string, else the trimmed     *)
(* first line of the docstring (first body statement, if a literal         *)
(* string), else absent.                                                   *)
C8_DisplayNamePrecedence ==
    pc # "main" =>
        \A func \in TopLevelFunctions : \A k \in 1..Len(tests) :
            tests[k].name = <<func.name>> /\ tests[k].line_number = Some(func.line) =>
                LET hits == {j \in 1..Len(func.decorator_list) :
                                Classifies(func.decorator_list[j])}
                    first == CHOOSE j \in hits : \A h \in hits : j <= h
                IN HasDisplayName(tests[k].display_name, func, func.decorator_list[first])

C8_Witness ==
    /\ pc # "main"
    /\ Len(tests) = 1
    /\ tests[1].display_name = Some(<<"k">>)
    /\ \E func \in TopLevelFunctions :
        /\ func.decorator_list[1].kind = "Call"
        /\ func.decorator_list[1].func = Name("test")
        /\ func.decorator_list[1].args = <<Lit("p"), Lit("q")>>
        /\ func.body = <<ExprStmt(StringLiteral(<<" ", "d", " ">>)), Pass>>

----------------------------------------------------------------------------
(* Entry calls: one test whose body is one assertion chain                 *)
(* entry(...)[.not_].to_equal(1), over the callees, the positional (up to  *)
(* MaxExpectArgs) and the keyword (up to MaxKw) arguments of the entry     *)

EntryCallees == {Name("expect"), Attribute(Name("tryke"), "expect"), Name("check")}

EntryArgs == {OtherExpr("x"), Lit("p"), Lit("q")}

EntryKeywords ==
    {Keyword(Some("name"), Lit("k")), Keyword(Some("name"), OtherExpr("y")),
     Keyword(Some("msg"), Lit("m"))}

EntryCalls ==
    {Call(callee, args, kws, 3) :
        callee \in EntryCallees,
        args \in SeqsUpTo(EntryArgs, MaxExpectArgs),
        kws \in KeywordLists(EntryKeywords, MaxKw)}

(* entry.to_equal(1) or entry.not_.to_equal(1), on line 3 *)
Chain(entry, negated) ==
    Call(Attribute(IF negated THEN Attribute(entry, "not_") ELSE entry, "to_equal"),
         <<OtherExpr("1")>>, <<>>, 3)

InitExpect ==
    \E entry \in EntryCalls : \E negated \in BOOLEAN :
        StartOneFile(<<FunctionDef("f1", <<Name("test")>>,
                                   <<ExprStmt(Chain(entry, negated))>>, 1)>>)

SpecExpect == InitExpect /\ [][Next]_vars

(* the entry call of the one chain of the one test *)
TheChain == TheBody[1].body[1].value
TheEntry ==
    IF TheChain.func.value.kind = "Call" THEN TheChain.func.value
    ELSE TheChain.func.value.value

FoundAssertions == tests[1].expected_assertions

NameLiterals(call) ==
    {kw \in {call.keywords[j] : j \in 1..Len(call.keywords)} :
        kw.arg = Some("name") /\ kw.kwvalue.kind = "StringLiteral"}

(* C9: the label of an extracted assertion is the literal-string name=     *)
(* keyword of the entry call if present, else the second positional        *)
(* argument if it is a literal string, else absent; the subject is always  *)
(* the source text of the first positional argument.                       *)
C9_LabelPrecedence ==
    pc # "main" =>
        \A k \in 1..Len(FoundAssertions) :
            LET a == FoundAssertions[k] IN
            /\ a.subject = Unparse(TheEntry.args[1])
            /\ IF NameLiterals(TheEntry) # {}
               THEN \E kw \in NameLiterals(TheEntry) : a.label = Some(kw.kwvalue.str)
               ELSE IF Len(TheEntry.args) >= 2 /\ TheEntry.args[2].kind = "StringLiteral"
               THEN a.label = Some(TheEntry.args[2].str)
               ELSE a.label = None

C9_Witness ==
    /\ pc # "main"
    /\ TheEntry.args = <<OtherExpr("x"), Lit("p")>>
    /\ TheEntry.keywords = <<Keyword(Some("name"), Lit("k"))>>
    /\ Len(FoundAssertions) = 1
    /\ FoundAssertions[1].label = Some(<<"k">>)
    /\ FoundAssertions[1].subject = <<"x">>

(* the callee of the entry call is named expect *)
EntryIsExpect ==
    \/ TheEntry.func = Name("expect")
    \/ TheEntry.func.kind = "Attribute" /\ TheEntry.func.attr = "expect"

(* C10 as stated: an entry call is recognized only when it has 1 or 2      *)
(* arguments, positional and keyword arguments counted together; with more *)
(* arguments it produces no ExpectedAssertion.                             *)
C10_ArityCountsAllArguments ==
    pc # "main" =>
        LET n == Len(TheEntry.args) + Len(TheEntry.keywords)
        IN FoundAssertions # <<>> => n \in {1, 2}

(* C10, amended: an entry call is recognized as an assertion exactly when  *)
(* it has 1 or 2 positional arguments; keyword arguments are not counted;  *)
(* with none or more than 2 positional arguments it produces no            *)
(* ExpectedAssertion.                                                      *)
C10_ArityCountsPositional ==
    pc # "main" =>
        /\ Len(FoundAssertions) <= 1
        /\ FoundAssertions # <<>> <=> EntryIsExpect /\ Len(TheEntry.args) \in {1, 2}

C10_Witness ==
    /\ pc # "main"
    /\ Len(TheEntry.args) = 2
    /\ Len(TheEntry.keywords) = 1
    /\ Len(FoundAssertions) = 1

----------------------------------------------------------------------------
(* Nested blocks: one test whose body holds one assertion chain under up   *)
(* to MaxDepth compound statements, in each block a compound statement has *)

BlockPlaces ==
    {"if", "elif", "else", "for", "for_else", "while", "while_else", "with",
     "try", "except", "try_else", "finally"}

Cond == OtherExpr("c")

(* the compound statement that holds the statements `inner` at `place` *)
Block(place, inner) ==
    CASE place = "if" -> If(Cond, inner, <<>>)
      [] place = "elif" -> If(Cond, <<Pass>>, <<ElifElseClause(Some(Cond), inner)>>)
      [] place = "else" -> If(Cond, <<Pass>>, <<ElifElseClause(None, inner)>>)
      [] place = "for" -> For(inner, <<>>)
      [] place = "for_else" -> For(<<Pass>>, inner)
      [] place = "while" -> While(inner, <<>>)
      [] place = "while_else" -> While(<<Pass>>, inner)
      [] place = "with" -> With(inner)
      [] place = "try" -> Try(inner, <<ExceptHandler(<<Pass>>)>>, <<>>, <<>>)
      [] place = "except" -> Try(<<Pass>>, <<ExceptHandler(inner)>>, <<>>, <<>>)
      [] place = "try_else" -> Try(<<Pass>>, <<ExceptHandler(<<Pass>>)>>, inner, <<>>)
      [] place = "finally" -> Try(<<Pass>>, <<>>, <<>>, inner)

(* the statement `stmt` under the blocks of `places`, outermost first *)
RECURSIVE Nested(_, _, _)
Nested(places, i, stmt) ==
    IF i > Len(places) THEN stmt
    ELSE Block(places[i], <<Nested(places, i + 1, stmt)>>)

PlainChain == Chain(Call(Name("expect"), <<OtherExpr("x")>>, <<>>, 3), FALSE)

InitNest ==
    \E places \in SeqsUpTo(BlockPlaces, MaxDepth) :
        StartOneFile(<<FunctionDef("f1", <<Name("test")>>,
                                   <<Nested(places, 1, ExprStmt(PlainChain))>>, 1)>>)

SpecNest == InitNest /\ [][Next]_vars

(* the places of the blocks around the chain, outermost first *)
RECURSIVE PlacesOf(_)
PlacesOf(stmt) ==
    LET Holds(block) == block # <<>> /\ block[1] # Pass
        Under(place, block) == <<place>> \o PlacesOf(block[1])
    IN CASE stmt.kind = "If" ->
                IF Holds(stmt.body) THEN Under("if", stmt.body)
                ELSE IF IsSome(stmt.elif_else_clauses[1].ctest)
                THEN Under("elif", stmt.elif_else_clauses[1].body)
                ELSE Under("else", stmt.elif_else_clauses[1].body)
         [] stmt.kind = "For" ->
                IF Holds(stmt.body) THEN Under("for", stmt.body)
                ELSE Under("for_else", stmt.orelse)
         [] stmt.kind = "While" ->
                IF Holds(stmt.body) THEN Under("while", stmt.body)
                ELSE Under("while_else", stmt.orelse)
         [] stmt.kind = "With" -> Under("with", stmt.body)
         [] stmt.kind = "Try" ->
                IF Holds(stmt.body) THEN Under("try", stmt.body)
                ELSE IF Holds(stmt.orelse) THEN Under("try_else", stmt.orelse)
                ELSE IF Holds(stmt.finalbody) THEN Under("finally", stmt.finalbody)
                ELSE Under("except", stmt.handlers[1].body)
         [] OTHER -> <<>>

ThePlaces == PlacesOf(TheBody[1].body[1])

InHandler == \E i \in 1..Len(ThePlaces) : ThePlaces[i] = "except"

PlainAssertion ==
    ExpectedAssertion(<<"x">>, "to_equal", FALSE, <<(<<"1">>)>>, 3, None)

(* C11: an assertion written as an expression statement at any depth of    *)
(* if/elif/else, for/while (body and else), with and try (body, except     *)
(* handlers, else, finally) blocks of a test body is in the test's         *)
(* expected_assertions.                                                    *)
C11_EveryBlockIsWalked ==
    pc # "main" => FoundAssertions = <<PlainAssertion>>

(* What the code does about C11: the claim's rule for the chains that are  *)
(* in no except handler; a chain in an except handler is not found.        *)
EveryBlockButHandlersIsWalked ==
    pc # "main" =>
        FoundAssertions = IF InHandler THEN <<>> ELSE <<PlainAssertion>>

----------------------------------------------------------------------------
(* Composed expressions: one test whose body is an expression statement    *)
(* and a return statement; the expression composes assertion chains with   *)
(* calls of up to MaxNestArgs arguments.  The source is laid out with one  *)
(* token on a line (the statement in parentheses), so that the line of a   *)
(* call's start is the place of its first token.                           *)

Operand == OtherExpr("v")

Entry(subject) == Call(Name("expect"), <<subject>>, <<>>, 0)

(* the chain expect(v).m(1) *)
Leaf == Call(Attribute(Entry(Operand), "m"), <<OtherExpr("1")>>, <<>>, 0)

Compose(how, operands) ==
    LET foo == Call(Name("foo"), operands, <<>>, 0)
    IN CASE how = "assert" -> Call(Attribute(Entry(Operand), "m"), operands, <<>>, 0)
         [] how = "foo" -> foo
         [] how = "callee" -> Call(foo, operands, <<>>, 0)
         [] how = "method" -> Call(Attribute(foo, "bar"), operands, <<>>, 0)
         [] how = "subject" -> Call(Attribute(Entry(foo), "m"), operands, <<>>, 0)
         [] how = "keyword" ->
                Call(Attribute(Entry(Operand), "m"), operands,
                     <<Keyword(Some("key"), foo)>>, 0)

Inner ==
    {Operand, Leaf}
    \cup {Compose(how, operands) :
            how \in {"assert", "foo"},
            operands \in SeqsUpTo({Operand, Leaf}, MaxNestArgs)}

Composed ==
    {Compose(how, operands) :
        how \in {"assert", "foo", "callee", "method", "subject", "keyword"},
        operands \in {<<e>> : e \in Inner} \cup {<<d, e>> : d, e \in Inner}}

(* `expr` with the line of every call in it, its first token on line `at` *)
RECURSIVE Layout(_, _)
RECURSIVE LayoutArgs(_, _, _)
RECURSIVE LayoutKeywords(_, _, _)
LayoutArgs(args, i, at) ==
    IF i > Len(args) THEN <<>>
    ELSE <<Layout(args[i], at)>>
         \o LayoutArgs(args, i + 1, at + Len(Unparse(args[i])) + 1)
LayoutKeywords(keywords, i, at) ==
    IF i > Len(keywords) THEN <<>>
    ELSE LET kw == keywords[i]
             value == at + Len(kw.arg) + 1
         IN <<Keyword(kw.arg, Layout(kw.kwvalue, value))>>
            \o LayoutKeywords(keywords, i + 1, value + Len(Unparse(kw.kwvalue)) + 1)
Layout(expr, at) ==
    CASE expr.kind = "Attribute" -> Attribute(Layout(expr.value, at), expr.attr)
      [] expr.kind = "Call" ->
            LET open == at + Len(Unparse(expr.func)) + 1
                after == open + Len(UnparseList(
                            [i \in 1..Len(expr.args) |-> Unparse(expr.args[i])], 1))
                         + (IF expr.args # <<>> THEN 1 ELSE 0)
            IN Call(Layout(expr.func, at), LayoutArgs(expr.args, 1, open),
                    LayoutKeywords(expr.keywords, 1, after), at)
      [] OTHER -> expr

(* ( expr ) on the lines from 3 on, then return ( Leaf ) *)
ComposedBody(expr) ==
    <<ExprStmt(Layout(expr, 4)),
      Return(Some(Layout(Leaf, 4 + Len(Unparse(expr)) + 3)))>>

InitOrder ==
    \E expr \in Composed :
        StartOneFile(<<FunctionDef("f1", <<Name("test")>>, ComposedBody(expr), 1)>>)

SpecOrder == InitOrder /\ [][Next]_vars

(* the calls of an expression that are an argument of it, or an argument   *)
(* of a call that is (through the callee of a call, when that is a call)   *)
RECURSIVE ThroughArguments(_)
ThroughArguments(expr) ==
    IF expr.kind # "Call" THEN {}
    ELSE {expr} \cup ThroughArguments(expr.func)
         \cup UNION {ThroughArguments(expr.args[i]) : i \in 1..Len(expr.args)}

NestedInArguments(call) ==
    UNION {ThroughArguments(call.args[i]) : i \in 1..Len(call.args)}

IsAssertion(call) == IsSome(try_extract_assertion(call))

(* where expected_assertions lists the assertion of `call`: 0 if nowhere *)
ListedAt(call) ==
    LET at == {k \in 1..Len(FoundAssertions) :
                  FoundAssertions[k] = Unwrap(try_extract_assertion(call))}
    IN IF at = {} THEN 0 ELSE CHOOSE k \in at : TRUE

TheStatements == {TheBody[1].body[1].value, Unwrap(TheBody[1].body[2].ret)}

(* C12: expected_assertions lists the assertions in the textual order in   *)
(* which their outer (matcher) calls start, and an assertion nested in the *)
(* matcher arguments of a listed assertion (an argument, or an argument of *)
(* a call so nested) is listed too, after the assertion that contains it.  *)
C12_TextualOrderContainerFirst ==
    pc # "main" =>
        /\ \A i, j \in 1..Len(FoundAssertions) :
                i < j => FoundAssertions[i].line < FoundAssertions[j].line
        /\ \A stmt \in TheStatements : \A outer \in ThroughArguments(stmt) :
                IsAssertion(outer) /\ ListedAt(outer) > 0 =>
                    \A inner \in NestedInArguments(outer) :
                        IsAssertion(inner) => ListedAt(inner) > ListedAt(outer)

C12_Witness ==
    /\ pc # "main"
    /\ Len(FoundAssertions) = 4
    /\ LET outer == TheBody[1].body[1].value
       IN /\ IsAssertion(outer)
          /\ ListedAt(outer) = 1
          /\ Len(outer.args) = 2
          /\ outer.args[1].kind = "Call" /\ ~IsAssertion(outer.args[1])
          /\ \E inner \in NestedInArguments(outer.args[1]) : ListedAt(inner) = 2
          /\ IsAssertion(outer.args[2]) /\ ListedAt(outer.args[2]) = 3

----------------------------------------------------------------------------
(* Chains: one test whose body is one call chain: an entry call, up to two *)
(* attributes, the matcher attribute and the matcher call with up to       *)
(* MaxMatcherArgs positional and up to MaxKw keyword arguments             *)

ChainEntries ==
    {Call(Name("expect"), <<OtherExpr("x")>>, <<>>, 3),
     Call(Name("expect"), <<OtherExpr("x"), Lit("p")>>, <<>>, 3),
     Call(Name("check"), <<OtherExpr("x")>>, <<>>, 3)}

ChainLinks ==
    {<<>>, <<"not_">>, <<"value">>, <<"not_", "not_">>, <<"value", "not_">>,
     <<"not_", "value">>}

Matchers == {"to_equal", "to_be_none", "not_"}

MatcherArgs ==
    {OtherExpr("2"), Lit("p"),
     Call(Name("add"), <<OtherExpr("1"), OtherExpr("1")>>, <<>>, 3)}

MatcherKeywords == {Keyword(Some("key"), Lit("k"))}

(* expr.a1.a2... for the attribute names a1, a2, ... *)
RECURSIVE Dotted(_, _)
Dotted(expr, attrs) ==
    IF attrs = <<>> THEN expr
    ELSE Attribute(Dotted(expr, SubSeq(attrs, 1, Len(attrs) - 1)), attrs[Len(attrs)])

InitChain ==
    \E entry \in ChainEntries : \E links \in ChainLinks : \E matcher \in Matchers :
        \E args \in SeqsUpTo(MatcherArgs, MaxMatcherArgs) :
            \E kws \in KeywordLists(MatcherKeywords, MaxKw) :
                StartOneFile(
                    <<FunctionDef("f1", <<Name("test")>>,
                        <<ExprStmt(Call(Dotted(entry, links \o <<matcher>>),
                                        args, kws, 3))>>, 1)>>)

SpecChain == InitChain /\ [][Next]_vars

(* the attribute names over the innermost call of a chain, innermost first *)
RECURSIVE AttributesOver(_)
AttributesOver(expr) ==
    IF expr.kind = "Attribute" THEN AttributesOver(expr.value) \o <<expr.attr>>
    ELSE <<>>

(* the attributes between the entry call and the matcher attribute *)
Between == AttributesOver(TheChain.func.value)

(* C13: for a recognized assertion, negated is true iff the attribute not_ *)
(* sits directly between the entry call and the matcher attribute; matcher *)
(* is the final attribute name of the chain; args are the source texts of  *)
(* the matcher call's positional arguments, in order.                      *)
C13_NegatedMatcherArgs ==
    pc # "main" =>
        \A k \in 1..Len(FoundAssertions) :
            LET a == FoundAssertions[k]
                names == AttributesOver(TheChain.func)
            IN /\ a.negated <=> Between = <<"not_">>
               /\ a.matcher = names[Len(names)]
               /\ Len(a.args) = Len(TheChain.args)
               /\ \A i \in 1..Len(a.args) : a.args[i] = Unparse(TheChain.args[i])

C13_Witness ==
    /\ pc # "main"
    /\ Len(FoundAssertions) = 1
    /\ FoundAssertions[1].negated
    /\ FoundAssertions[1].matcher = "not_"
    /\ FoundAssertions[1].args = <<(<<"add", "(", "1", ",", "1", ")">>), (<<"'", "p", "'">>)>>
    /\ TheChain.keywords # <<>>

----------------------------------------------------------------------------
(* Broken files: up to MaxFiles files, each readable and parseable or not, *)
(* whose text holds one or two test functions                              *)

BrokenFiles ==
    {SourceFile(status, [i \in 1..n |-> DriverStmt("test", i)]) :
        status \in {"ok", "unreadable", "syntax_error"}, n \in 1..2}

BrokenTrees ==
    UNION {[P -> BrokenFiles] : P \in {Q \in SUBSET DriverPaths : Cardinality(Q) <= MaxFiles}}

InitBroken ==
    \E tree \in BrokenTrees : \E order \in WalkOrders(DOMAIN tree) : Start(tree, order)

SpecBroken == InitBroken /\ [][Next]_vars

Broken(file) == fs[file].status # "ok"

(* C14: a file that cannot be read or cannot be parsed contributes no test *)
(* item and no error; the items of every other file are all returned, and  *)
(* the invocation ends with Ok.                                            *)
C14_BrokenFilesAreSkipped ==
    /\ pc # "main" =>
        \A file \in DOMAIN fs :
            IF Broken(file) THEN ItemsOfFile(file) = <<>>
            ELSE /\ Len(ItemsOfFile(file)) = Len(fs[file].body)
                 /\ \A k \in 1..Len(fs[file].body) :
                        ItemsOfFile(file)[k].name = <<fs[file].body[k].name>>
    /\ exit \in {None, Some("Ok")}
    /\ pc = "done" => exit = Some("Ok")

C14_Witness ==
    /\ pc = "done"
    /\ Len(walk) = 2
    /\ \E bad, good \in DOMAIN fs :
        /\ PathLess(bad, good)
        /\ fs[bad].status = "syntax_error"
        /\ fs[good].status = "ok"
        /\ Len(tests) = Len(fs[good].body)
        /\ Len(tests) = 2

----------------------------------------------------------------------------
(* A caller of the Reporter trait with tests and results of its own, as    *)
(* the tests of the backends are: it holds its tests in `tests` and the    *)
(* results it may report in `results`, and calls the four callbacks in any *)
(* order, up to MaxCalls times.                                            *)

CallOnRunStart ==
    /\ pc = "api"
    /\ Len(calls) < MaxCalls
    /\ calls' = Append(calls, OnRunStart(tests))
    /\ Deliver(on_run_start(reporter, tests), pc, exit)
    /\ UNCHANGED <<fs, walk, collect_only, tests, results, idx, passed, failed,
                   skipped, sink, renderer>>

CallOnTestComplete ==
    /\ pc = "api"
    /\ Len(calls) < MaxCalls
    /\ \E i \in 1..Len(results) :
        /\ calls' = Append(calls, OnTestComplete(results[i]))
        /\ Deliver(on_test_complete(reporter, results[i], renderer), pc, exit)
    /\ UNCHANGED <<fs, walk, collect_only, tests, results, idx, passed, failed,
                   skipped, sink, renderer>>

(* the summary a caller passes: of a run of four tests, one failed and one *)
(* skipped, whatever it has reported                                       *)
Summaries == {RunSummary(2, 1, 1, 1500)}

CallOnRunComplete ==
    /\ pc = "api"
    /\ Len(calls) < MaxCalls
    /\ \E summary \in Summaries :
        /\ calls' = Append(calls, OnRunComplete(summary))
        /\ Deliver(on_run_complete(reporter, summary), pc, exit)
    /\ UNCHANGED <<fs, walk, collect_only, tests, results, idx, passed, failed,
                   skipped, sink, renderer>>

CallOnCollectComplete ==
    /\ pc = "api"
    /\ Len(calls) < MaxCalls
    /\ calls' = Append(calls, OnCollectComplete(tests))
    /\ Deliver(on_collect_complete(reporter, tests), pc, exit)
    /\ UNCHANGED <<fs, walk, collect_only, tests, results, idx, passed, failed,
                   skipped, sink, renderer>>

NextReporter ==
    \/ CallOnRunStart
    \/ CallOnTestComplete
    \/ CallOnRunComplete
    \/ CallOnCollectComplete

(* The state of a caller that has built `backend` over the writer `stdout` *)
(* and holds the results `pool`                                            *)
StartReporter(backend, stdout, handler, pool) ==
    /\ fs = <<>>
    /\ walk = <<>>
    /\ collect_only = FALSE
    /\ pc = "api"
    /\ tests = [i \in 1..Len(pool) |-> pool[i].test]
    /\ results = pool
    /\ idx = 0
    /\ passed = 0
    /\ failed = 0
    /\ skipped = 0
    /\ calls = <<>>
    /\ exit = None
    /\ reporter = backend
    /\ sink = stdout
    /\ renderer = handler
    /\ output = <<>>

Formats == {"text", "json", "dot", "junit"}
Verbosities == {"quiet", "normal", "verbose"}
Backends == {MakeReporter(format, verbosity) : format \in Formats, verbosity \in Verbosities}

(* the expected assertions of a test: one at line 4, a labelled one at 7 *)
TwoExpected ==
    <<ExpectedAssertion(<<"x">>, "to_equal", FALSE, <<(<<"1">>)>>, 4, None),
      ExpectedAssertion(<<"y">>, "to_be", TRUE, <<(<<"z">>)>>, 7, Some(<<"why">>))>>

(* a test of the file `file` (None: a test without a file) *)
PoolTest(name, file, expected) ==
    TestItem(<<name>>, IF IsSome(file) THEN path_to_module(Unwrap(file)) ELSE <<"m">>,
             file, Some(1), None, expected)

(* runtime assertions: of line `line`, with the span inside the expression *)
(* or reaching past its end                                                *)
AssertionAt(line, span_length) ==
    Assertion(<<"a", "s", "s", "e", "r", "t">>, None, line, 0, span_length, <<"2">>, <<"3">>)

----------------------------------------------------------------------------
(* A writer that rejects writes *)

RejectedResults ==
    <<TestResult(PoolTest("a", Some(<<2>>), TwoExpected), Passed, 0),
      TestResult(PoolTest("b", Some(<<3>>), TwoExpected),
                 Failed(<<"boom">>, <<AssertionAt(4, 6)>>), 1500),
      TestResult(PoolTest("c", None, <<>>), Skipped(Some(<<"later">>)), 0)>>

SinkFiles == {SourceFile("ok", [i \in 1..n |-> DriverStmt("test", i)]) : n \in 0..1}

SinkTrees ==
    UNION {[P -> SinkFiles] : P \in {Q \in SUBSET DriverPaths : Cardinality(Q) <= MaxFiles}}

InitSink ==
    \/ \E tree \in SinkTrees : \E order \in WalkOrders(DOMAIN tree) :
       \E format \in Formats : \E verbosity \in Verbosities :
       \E stdout \in {"rejects", "flaky"} :
            StartWith(tree, order, format, verbosity, stdout)
    \/ \E backend \in Backends : \E stdout \in {"rejects", "flaky"} :
            StartReporter(backend, stdout, "strict", RejectedResults)

NextSink == Next \/ NextReporter

SpecSink == InitSink /\ [][NextSink]_vars

(* the calls run_test has made when its loop has completed n tests *)
CallsUpTo(n) ==
    <<OnRunStart(tests)>> \o [i \in 1..n |-> OnTestComplete(results[i])]

(* C15: over a writer that rejects writes every callback of every backend  *)
(* returns (none panics), the driver makes all the calls of the run in     *)
(* their order, and the run ends with Ok.                                  *)
C15_RejectedWritesAreSuppressed ==
    /\ pc # "panicked"
    /\ exit # Some("Panic")
    /\ pc = "loop" => calls = CallsUpTo(idx)
    /\ pc = "done" =>
        /\ exit = Some("Ok")
        /\ IF collect_only THEN calls = <<OnCollectComplete(tests)>>
           ELSE /\ Len(calls) = Len(tests) + 2
                /\ SubSeq(calls, 1, Len(tests) + 1) = CallsUpTo(Len(tests))
                /\ calls[Len(calls)].cb = "on_run_complete"
    /\ sink = "rejects" => output = <<>>

(* a writer that has rejected every write of a whole run of two tests *)
C15_Witness ==
    /\ sink = "rejects"
    /\ pc = "done"
    /\ ~collect_only
    /\ Len(tests) = 2
    /\ Len(calls) = 4
    /\ exit = Some("Ok")
    /\ output = <<>>

----------------------------------------------------------------------------
(* A caller of a backend over a writer that accepts every write *)

ReportedResults ==
    <<TestResult(PoolTest("a", Some(<<2>>), TwoExpected), Passed, 0),
      TestResult(PoolTest("b", Some(<<2>>), TwoExpected),
                 Failed(<<"boom">>, <<AssertionAt(4, 6)>>), 1500),
      TestResult(PoolTest("c", Some(<<3>>), TwoExpected), Failed(<<"boom">>, <<>>), 0),
      TestResult(PoolTest("d", Some(<<3>>), <<>>), Skipped(None), 0),
      TestResult(PoolTest("e", None, <<>>), Passed, 0),
      TestResult(PoolTest("f", None, TwoExpected),
                 Failed(<<"boom">>, <<AssertionAt(9, 6), AssertionAt(7, 9)>>), 0)>>

InitReporter ==
    \E backend \in Backends : \E handler \in {"strict", "lenient"} :
        StartReporter(backend, "accepts", handler, ReportedResults)

SpecReporter == InitReporter /\ [][NextReporter]_vars

(* the results the reporter has been given so far, in order *)
RECURSIVE CompletionsIn(_, _)
CompletionsIn(cs, i) ==
    IF i > Len(cs) THEN <<>>
    ELSE (IF cs[i].cb = "on_test_complete" THEN <<cs[i].result>> ELSE <<>>)
         \o CompletionsIn(cs, i + 1)

Completions == CompletionsIn(calls, 1)

(* the step is a call of on_test_complete *)
Completes == Len(calls') = Len(calls) + 1 /\ calls'[Len(calls')].cb = "on_test_complete"

(* what the step has written *)
Written == SubSeq(output', Len(output) + 1, Len(output'))

IsFileHeader(piece) == piece.w = "file"

(* C16: in Normal and Verbose mode on_test_complete of the Text backend    *)
(* writes the header of the test's file exactly when the test has a file   *)
(* and the completion before it, if there is one, was not of that file.    *)
C16_HeaderWhenFileChanges ==
    [][(reporter.kind = "text" /\ reporter.verbosity # "quiet" /\ Completes) =>
        LET file == calls'[Len(calls')].result.test.file_path
            before == Completions
            changed == before = <<>> \/ before[Len(before)].test.file_path # file
        IN SelectSeq(Written, IsFileHeader)
            = IF IsSome(file) /\ changed
              THEN <<[w |-> "file", path |-> Unwrap(file)]>> ELSE <<>>]_vars

(* three completions, the first two of one file and the third of another,  *)
(* have been written under two headers                                     *)
C16_Witness ==
    /\ reporter.kind = "text"
    /\ reporter.verbosity = "normal"
    /\ Len(Completions) = 3
    /\ Completions[1].test.file_path = Some(<<2>>)
    /\ Completions[2].test.file_path = Some(<<2>>)
    /\ Completions[3].test.file_path = Some(<<3>>)
    /\ SelectSeq(output, IsFileHeader)
        = <<[w |-> "file", path |-> <<2>>], [w |-> "file", path |-> <<3>>]>>

IsResultLine(piece) == piece.w = "result"

IsDiagnostic(piece) == piece.w \in {"block", "tally"}

(* C17: in Quiet mode on_test_complete of the Text backend writes no       *)
(* result line for a Passed or a Skipped result; for a Failed result it    *)
(* writes the result line and, when the failure carries runtime            *)
(* assertions, the rendering of the diagnostic renderer after it.          *)
C17_QuietShowsFailuresOnly ==
    [][(reporter.kind = "text" /\ reporter.verbosity = "quiet" /\ Completes) =>
        LET result == calls'[Len(calls')].result
            outcome == result.outcome
            rest == Tail(Written)
        IN IF outcome.status # "failed"
           THEN SelectSeq(Written, IsResultLine) = <<>>
           ELSE /\ Written # <<>>
                /\ Written[1] = [w |-> "result", glyph |-> "failed",
                                 display |-> DisplayOf(result.test),
                                 duration |-> Some(format_duration(result.duration))]
                /\ SelectSeq(rest, IsResultLine) = <<>>
                /\ IF outcome.assertions = <<>> THEN rest = <<>>
                   ELSE /\ rest # <<>>
                        /\ \A i \in 1..Len(rest) : IsDiagnostic(rest[i])
                        /\ rest[Len(rest)].w = "tally"
                        /\ rest[Len(rest)].total = Len(outcome.assertions)]_vars

(* a quiet reporter has been given a passed, a failed and a skipped result *)
(* and has written the line of the failure and its diagnostic only         *)
C17_Witness ==
    /\ reporter.kind = "text"
    /\ reporter.verbosity = "quiet"
    /\ Len(Completions) = 3
    /\ Completions[1].outcome.status = "passed"
    /\ Completions[2].outcome.status = "failed"
    /\ Completions[2].outcome.assertions # <<>>
    /\ Completions[3].outcome.status = "skipped"
    /\ Len(output) = 3
    /\ output[1].w = "result"
    /\ output[1].glyph = "failed"
    /\ output[2].w = "block"
    /\ output[3].w = "tally"

IsExpectedLine(piece) == piece.w = "expected"

(* C18: in Verbose mode the Text backend writes one line for each expected *)
(* assertion of a Passed or Failed test, in their order; the line has the  *)
(* failed glyph if and only if the outcome is Failed and a runtime         *)
(* assertion of the result has the line number of the expected assertion,  *)
(* and the passed glyph otherwise.                                         *)
C18_ExpectedAssertionGlyphs ==
    [][(reporter.kind = "text" /\ reporter.verbosity = "verbose" /\ Completes
        /\ calls'[Len(calls')].result.outcome.status \in {"passed", "failed"}) =>
        LET result == calls'[Len(calls')].result
            expected == result.test.expected_assertions
            lines == SelectSeq(Written, IsExpectedLine)
            Fails(k) ==
                /\ result.outcome.status = "failed"
                /\ \E j \in 1..Len(result.outcome.assertions) :
                        result.outcome.assertions[j].aline = expected[k].line
        IN /\ Len(lines) = Len(expected)
           /\ \A k \in 1..Len(expected) :
                lines[k].glyph = IF Fails(k) THEN "failed" ELSE "passed"]_vars

(* a verbose reporter has written the expected assertions of a failed test *)
(* whose only runtime assertion is on the line of the first of the two     *)
C18_Witness ==
    /\ reporter.kind = "text"
    /\ reporter.verbosity = "verbose"
    /\ Len(Completions) = 1
    /\ Completions[1].outcome.status = "failed"
    /\ Len(Completions[1].outcome.assertions) = 1
    /\ Completions[1].outcome.assertions[1].aline = Completions[1].test.expected_assertions[1].line
    /\ Len(SelectSeq(output, IsExpectedLine)) = 2
    /\ SelectSeq(output, IsExpectedLine)[1].glyph = "failed"
    /\ SelectSeq(output, IsExpectedLine)[2].glyph = "passed"

----------------------------------------------------------------------------
(* A caller of render_assertions, as on_test_complete of the Text backend  *)
(* and the tests of the renderer are: it renders one list of assertions    *)
(* into `output`, a buffer that may hold text already.                     *)

OnRenderAssertions(file, assertions, buf) ==
    [cb |-> "render_assertions", file |-> file, assertions |-> assertions, buf |-> buf]

(* assertions on `a == 2`: two with the span on the `2`, one with a span   *)
(* that runs past the end of the expression                                *)
RenderedAssertions ==
    {Assertion(<<"a", " ", "=", "=", " ", "2">>, None, 4, 5, 1, <<"2">>, <<"3">>),
     Assertion(<<"a", " ", "=", "=", " ", "2">>, None, 7, 5, 1, <<"5">>, <<"6">>),
     Assertion(<<"a", " ", "=", "=", " ", "2">>, None, 9, 5, 4, <<"8">>, <<"9">>)}

CallRenderAssertions ==
    /\ pc = "render"
    /\ \E file \in {None, Some(<<2>>), Some(<<3>>)} :
       \E assertions \in SeqsUpTo(RenderedAssertions, MaxAssertions) :
        /\ calls' = Append(calls, OnRenderAssertions(file, assertions, output))
        /\ output' = render_assertions(renderer, file, assertions, output)
    /\ pc' = "rendered"
    /\ UNCHANGED <<fs, walk, collect_only, tests, results, idx, passed, failed,
                   skipped, exit, reporter, sink, renderer>>

NextRender == CallRenderAssertions

InitRender ==
    /\ fs = <<>>
    /\ walk = <<>>
    /\ collect_only = FALSE
    /\ pc = "render"
    /\ tests = <<>>
    /\ results = <<>>
    /\ idx = 0
    /\ passed = 0
    /\ failed = 0
    /\ skipped = 0
    /\ calls = <<>>
    /\ exit = None
    /\ reporter = TextReporter("normal")
    /\ sink = "accepts"
    /\ renderer \in {"strict", "lenient"}
    /\ output \in {<<>>, <<[w |-> "banner"]>>}

SpecRender == InitRender /\ [][NextRender]_vars

(* the call that has been made, and what it has appended to the buffer *)
Rendered == calls[1]

Appended == SubSeq(output, Len(Rendered.buf) + 1, Len(output))

IsBlock(piece) == piece.w = "block"

IsTally(piece) == piece.w = "tally"

Annotation(assertion) ==
    <<"expected ">> \o assertion.expected \o <<", received ">> \o assertion.received

----------------------------------------------------------------------------
(* The JSON-lines backend over a writer that accepts every write: under    *)
(* main, and under a caller of its own                                     *)

InitJSON ==
    \/ \E tree \in SinkTrees : \E order \in WalkOrders(DOMAIN tree) :
       \E verbosity \in Verbosities :
            StartWith(tree, order, "json", verbosity, "accepts")
    \/ \E handler \in {"strict", "lenient"} :
            StartReporter(JSONReporter, "accepts", handler, ReportedResults)

SpecJSON == InitJSON /\ [][NextSink]_vars

(* the event discriminator of the line a callback writes *)
EventOf(cb) ==
    CASE cb = "on_run_start" -> "run_start"
      [] cb = "on_test_complete" -> "test_complete"
      [] cb = "on_run_complete" -> "run_complete"
      [] cb = "on_collect_complete" -> "collect_complete"

(* C20: the JSON-lines backend writes exactly one line per callback, with  *)
(* the event discriminator of that callback, so a run of N tests writes    *)
(* N + 2 lines: run_start, the N test_complete lines in completion order,  *)
(* run_complete.                                                           *)
C20_OneLinePerCallback ==
    /\ Len(output) = Len(calls)
    /\ \A i \in 1..Len(calls) :
        /\ output[i].w = "json"
        /\ output[i].object.event = EventOf(calls[i].cb)
        /\ calls[i].cb = "on_test_complete" =>
                output[i].object.result.test = calls[i].result.test
    /\ (pc = "done" /\ ~collect_only) =>
        /\ Len(output) = Len(tests) + 2
        /\ output[1].object.event = "run_start"
        /\ \A i \in 1..Len(tests) :
                /\ output[i + 1].object.event = "test_complete"
                /\ output[i + 1].object.result.test = results[i].test
        /\ output[Len(output)].object.event = "run_complete"

(* a run of two tests has ended and has written four lines *)
C20_Witness ==
    /\ reporter.kind = "json"
    /\ pc = "done"
    /\ ~collect_only
    /\ Len(tests) = 2
    /\ Len(output) = 4
    /\ output[2].object.event = "test_complete"
    /\ output[4].object.event = "run_complete"

----------------------------------------------------------------------------
(* Every backend over a writer that accepts every write: under main, and   *)
(* under a caller of its own                                               *)

InitBackends ==
    \/ \E tree \in SinkTrees : \E order \in WalkOrders(DOMAIN tree) :
       \E format \in Formats : \E verbosity \in Verbosities :
            StartWith(tree, order, format, verbosity, "accepts")
    \/ \E backend \in Backends : \E handler \in {"strict", "lenient"} :
            StartReporter(backend, "accepts", handler, ReportedResults)

SpecBackends == InitBackends /\ [][NextSink]_vars

IsGlyph(piece) == piece.w = "glyph"

(* a piece that is, or ends with, a line break: all but the glyph, which   *)
(* is the only piece written with write! and without a line feed           *)
EndsLine(piece) == piece.w # "glyph"

GlyphOf(outcome) ==
    CASE outcome.status = "passed" -> "."
      [] outcome.status = "failed" -> "F"
      [] outcome.status = "skipped" -> "s"

(* C21: on_test_complete of the Dot backend writes exactly one glyph, `.`  *)
(* for Passed, `F` for Failed, `s` for Skipped, and no line break, so the  *)
(* glyphs written are the outcomes in completion order, and in a run        *)
(* nothing but glyphs is written between on_run_start and on_run_complete. *)
C21_OneGlyphPerCompletion ==
    /\ [](reporter.kind = "dot" =>
            /\ SelectSeq(output, IsGlyph)
                = [i \in 1..Len(Completions) |->
                    [w |-> "glyph", glyph |-> GlyphOf(Completions[i].outcome)]]
            /\ pc = "loop" =>
                \A i \in (Len(Banner) + 1)..Len(output) : ~EndsLine(output[i]))
    /\ [][(reporter.kind = "dot" /\ Completes) =>
            /\ Len(Written) = 1
            /\ ~EndsLine(Written[1])]_vars

(* a passed, a failed and a skipped result have been written as `.Fs` *)
C21_Witness ==
    /\ reporter.kind = "dot"
    /\ Len(Completions) = 3
    /\ Completions[1].outcome.status = "passed"
    /\ Completions[2].outcome.status = "failed"
    /\ Completions[3].outcome.status = "skipped"
    /\ output = <<[w |-> "glyph", glyph |-> "."], [w |-> "glyph", glyph |-> "F"],
                  [w |-> "glyph", glyph |-> "s"]>>

(* the step is a call of the callback cb *)
Calls(cb) == Len(calls') = Len(calls) + 1 /\ calls'[Len(calls')].cb = cb

IsTestcase(piece) == piece.w = "testcase"

IsTestsuite(piece) == piece.w = "testsuite"

(* C22: the JUnit backend writes nothing in on_run_start and in            *)
(* on_test_complete; on_run_complete writes one testsuite element whose    *)
(* tests, failures and skipped attributes are the summary's total, failed  *)
(* and skipped counts, with one testcase per buffered completion in        *)
(* completion order.                                                       *)
C22_OneTestsuiteAtRunComplete ==
    [][reporter.kind = "junit" =>
        /\ (Calls("on_run_start") \/ Calls("on_test_complete")) => Written = <<>>
        /\ Calls("on_run_complete") =>
            LET summary == calls'[Len(calls')].summary
                cases == SelectSeq(Written, IsTestcase)
            IN /\ Len(Written) >= 3
               /\ SelectSeq(Written, IsTestsuite)
                    = <<[w |-> "testsuite",
                         tests |-> summary.passed + summary.failed + summary.skipped,
                         failures |-> summary.failed, skipped |-> summary.skipped,
                         time |-> summary.duration]>>
               /\ IsTestsuite(Written[2])
               /\ Written[Len(Written)] = [w |-> "testsuite_end"]
               /\ Len(cases) = Len(Completions)
               /\ \A k \in 1..Len(cases) :
                    /\ cases[k].name = xml_escape(DisplayOf(Completions[k].test))
                    /\ cases[k].classname = xml_escape(Completions[k].test.module_path)
                    /\ cases[k].time = Completions[k].duration]_vars

(* two completions, written as two testcases of a testsuite whose          *)
(* attributes are those of the summary and not the counts of the buffer    *)
C22_Witness ==
    /\ reporter.kind = "junit"
    /\ Len(calls) = 3
    /\ calls[1].cb = "on_test_complete"
    /\ calls[2].cb = "on_test_complete"
    /\ calls[3].cb = "on_run_complete"
    /\ calls[3].summary = RunSummary(2, 1, 1, 1500)
    /\ Len(SelectSeq(output, IsTestcase)) = 2
    /\ SelectSeq(output, IsTestsuite)[1].tests = 4

----------------------------------------------------------------------------
(* The JUnit backend given test data with markup characters in it *)

MarkupChars == {"&", "<", ">", "\"", "'"}

(* texts over the markup characters and a letter *)
Texts == SeqsUpTo(MarkupChars \cup {"a"}, MaxText)

(* a failed test with the text t as its module path and its message, and   *)
(* as its name or as its display name                                      *)
EscapedResults(t, displayed) ==
    <<TestResult(TestItem(IF displayed THEN <<"n">> ELSE t, t, None, None,
                          IF displayed THEN Some(t) ELSE None, <<>>),
                 Failed(t, <<>>), 0)>>

InitEscape ==
    \E t \in Texts : \E displayed \in BOOLEAN :
        StartReporter(JUnitReporter, "accepts", "strict", EscapedResults(t, displayed))

SpecEscape == InitEscape /\ [][NextReporter]_vars

Entities == {Escaped(ch) : ch \in MarkupChars}

(* the entity that starts at the i-th character, if one does *)
EntityAt(chars, i) ==
    {e \in Entities : i + Len(e) - 1 <= Len(chars) /\ SubSeq(chars, i, i + Len(e) - 1) = e}

(* no markup character but the ampersand of an entity *)
NoRawMarkup(chars) ==
    \A i \in 1..Len(chars) :
        /\ chars[i] \notin MarkupChars \ {"&"}
        /\ chars[i] = "&" => EntityAt(chars, i) # {}

(* an XML reader's view of an attribute value: entities read back *)
RECURSIVE Unescape(_, _)
Unescape(chars, i) ==
    IF i > Len(chars) THEN <<>>
    ELSE IF chars[i] = "&" /\ EntityAt(chars, i) # {}
         THEN LET e == CHOOSE x \in EntityAt(chars, i) : TRUE
                  ch == CHOOSE c \in MarkupChars : Escaped(c) = e
              IN <<ch>> \o Unescape(chars, i + Len(e))
         ELSE <<chars[i]>> \o Unescape(chars, i + 1)

IsFailure(piece) == piece.w = "failure"

IsFailed(result) == result.outcome.status = "failed"

(* C23: in the output of the JUnit backend the name (the display name when *)
(* there is one), the classname and the failure message hold no raw        *)
(* < > " ' and no & but that of an entity, and read back they are the      *)
(* test's data: each of & < > " ' has become its entity, every other       *)
(* character is unchanged.                                                 *)
C23_MarkupIsEscaped ==
    [][(reporter.kind = "junit" /\ Calls("on_run_complete")) =>
        LET cases == SelectSeq(Written, IsTestcase)
            failures == SelectSeq(Written, IsFailure)
            failing == SelectSeq(Completions, IsFailed)
        IN /\ Len(cases) = Len(Completions)
           /\ Len(failures) = Len(failing)
           /\ \A k \in 1..Len(cases) :
                /\ NoRawMarkup(cases[k].name)
                /\ NoRawMarkup(cases[k].classname)
                /\ Unescape(cases[k].name, 1) = DisplayOf(Completions[k].test)
                /\ Unescape(cases[k].classname, 1) = Completions[k].test.module_path
           /\ \A k \in 1..Len(failures) :
                /\ NoRawMarkup(failures[k].message)
                /\ Unescape(failures[k].message, 1) = failing[k].outcome.message]_vars

(* a failure with the message `&<` has been written as `&amp;&lt;` *)
C23_Witness ==
    /\ reporter.kind = "junit"
    /\ Len(Completions) = 1
    /\ IsFailed(Completions[1])
    /\ Completions[1].outcome.message = <<"&", "<">>
    /\ Len(SelectSeq(output, IsFailure)) = 1
    /\ SelectSeq(output, IsFailure)[1].message
        = <<"&", "a", "m", "p", ";", "&", "l", "t", ";">>

----------------------------------------------------------------------------
(* The duration of the summary *)

RECURSIVE SumOfDurations(_, _)
SumOfDurations(rs, i) ==
    IF i > Len(rs) THEN 0 ELSE rs[i].duration + SumOfDurations(rs, i + 1)

(* C24: the duration of the RunSummary handed to on_run_complete is the    *)
(* sum of the durations of the results of the run.                         *)
C24_DurationIsSumOfResults ==
    \A i \in CallsOf("on_run_complete") :
        calls[i].summary.duration = SumOfDurations(Completions, 1)

----------------------------------------------------------------------------
(* Entry calls with an unsupported number of arguments: one test whose     *)
(* body is the chain expect(<0 or 3.. arguments>).m(<arguments>), where an *)
(* argument of either call may be the well-formed chain expect(v).m(1).    *)

UnsupportedEntryArgs ==
    {args \in SeqsUpTo({Operand, Leaf}, MaxExpectArgs) : Len(args) = 0 \/ Len(args) > 2}

UnsupportedChain(entry_args, matcher_args) ==
    Call(Attribute(Call(Name("expect"), entry_args, <<>>, 0), "m"), matcher_args, <<>>, 0)

InitArity ==
    \E entry_args \in UnsupportedEntryArgs :
    \E matcher_args \in SeqsUpTo({Operand, Leaf}, MaxMatcherArgs) :
        StartOneFile(<<FunctionDef("f1", <<Name("test")>>,
            <<ExprStmt(Layout(UnsupportedChain(entry_args, matcher_args), 4))>>, 1)>>)

SpecArity == InitArity /\ [][Next]_vars

AssertionsAmong(args) ==
    {args[i] : i \in {j \in 1..Len(args) : args[j].kind = "Call" /\ IsAssertion(args[j])}}

(* C25: a chain whose entry call has an unsupported number of arguments is *)
(* not recorded, and a well-formed assertion that is an argument of the    *)
(* entry call or of the matcher call is still in expected_assertions.      *)
C25_UnsupportedArityStillDescends ==
    pc # "main" =>
        /\ ~IsAssertion(TheChain)
        /\ \A inner \in AssertionsAmong(TheEntry.args) \cup AssertionsAmong(TheChain.args) :
                ListedAt(inner) > 0

(* the part that holds: the chain is not recorded and the assertions among *)
(* the arguments of its matcher call are found, in their order, and        *)
(* nothing else is                                                         *)
MatcherArgumentsAreStillScanned ==
    pc # "main" =>
        /\ ~IsAssertion(TheChain)
        /\ \A inner \in AssertionsAmong(TheChain.args) : ListedAt(inner) > 0
        /\ Len(FoundAssertions) = Cardinality(AssertionsAmong(TheChain.args))

----------------------------------------------------------------------------
(* The buffer of the JUnit backend *)

(* C26: the JUnit backend never clears its buffer: it always holds every   *)
(* result the reporter was given, on_run_complete leaves it as it is, and  *)
(* every testsuite lists the testcases of all completions so far, those of *)
(* earlier runs first.                                                     *)
C26_BufferIsNeverCleared ==
    /\ [](reporter.kind = "junit" =>
            /\ reporter.results = Completions
            /\ Len(reporter.results) = Cardinality(CallsOf("on_test_complete")))
    /\ [][(reporter.kind = "junit" /\ Calls("on_run_complete")) =>
            /\ reporter'.results = reporter.results
            /\ SelectSeq(Written, IsTestcase)
                = SelectSeq(TestcaseLines(Completions, 1), IsTestcase)]_vars

(* a completion, a run complete, a further completion and a second run     *)
(* complete: the buffer holds both results, and the two testsuites hold    *)
(* one and two testcases                                                   *)
C26_Witness ==
    /\ reporter.kind = "junit"
    /\ Len(calls) = 4
    /\ calls[1].cb = "on_test_complete"
    /\ calls[2].cb = "on_run_complete"
    /\ calls[3].cb = "on_test_complete"
    /\ calls[4].cb = "on_run_complete"
    /\ Len(reporter.results) = 2
    /\ Len(SelectSeq(output, IsTestcase)) = 3
    /\ SelectSeq(output, IsTestcase)[2] = SelectSeq(output, IsTestcase)[1]

----------------------------------------------------------------------------
(* A function or class named `test` *)

NamedTest(stmt) == stmt.kind \in {"FunctionDef", "ClassDef"} /\ stmt.name = "test"

OnlyBare(func) == func.decorator_list = <<Name("test")>>

(* C27: when a top-level function or class of the file is named `test`,    *)
(* be it a function that carries the bare @test decorator itself, no       *)
(* function of the file decorated only with the bare form is discovered.   *)
C27_FunctionNamedTestShadows ==
    pc # "main" =>
        ((\E i \in 1..Len(TheBody) : NamedTest(TheBody[i])) =>
            \A func \in TopLevelFunctions : OnlyBare(func) => ~Discovered(func))

(* a bare-decorated f1 and a bare-decorated function named test: neither   *)
(* is discovered                                                           *)
C27_Witness ==
    /\ pc # "main"
    /\ Len(TheBody) = 2
    /\ TheBody[1].kind = "FunctionDef"
    /\ TheBody[1].name = "f1"
    /\ OnlyBare(TheBody[1])
    /\ NamedTest(TheBody[2])
    /\ TheBody[2].kind = "FunctionDef"
    /\ OnlyBare(TheBody[2])
    /\ tests = <<>>

----------------------------------------------------------------------------
(* Assertions in places the scan does not look at: one test whose body is  *)
(* one statement, with an assertion chain (on line 7) as an operand of an  *)
(* expression that is not a call, as the value of a keyword argument, as   *)
(* the receiver of a further method call, or as the value assigned.        *)

(* expect(v).m(1), expect(v).not_.m(1) and expect(v).expect(v) *)
Targets ==
    {Call(Attribute(Entry(Operand), "m"), <<OtherExpr("1")>>, <<>>, 7),
     Call(Attribute(Attribute(Entry(Operand), "not_"), "m"), <<OtherExpr("1")>>, <<>>, 7),
     Call(Attribute(Entry(Operand), "expect"), <<Operand>>, <<>>, 7)}

OperandPlaces ==
    {"bool", "unary", "compare", "await", "list", "tuple", "keyword",
     "keyword_of_assertion", "receiver"}

(* `target` as an operand of an expression on line 3 *)
Hold(place, target) ==
    CASE place = "bool" -> BoolOp(<<target, Operand>>)
      [] place = "unary" -> UnaryOp(target)
      [] place = "compare" -> Compare(target, <<Operand>>)
      [] place = "await" -> Await(target)
      [] place = "list" -> List(<<target>>)
      [] place = "tuple" -> Tuple(<<Operand, target>>)
      [] place = "keyword" ->
            Call(Name("foo"), <<>>, <<Keyword(Some("key"), target)>>, 3)
      [] place = "keyword_of_assertion" ->
            Call(Attribute(Entry(Operand), "outer"), <<Operand>>,
                 <<Keyword(Some("key"), target)>>, 3)
      [] place = "receiver" -> Call(Attribute(target, "bar"), <<>>, <<>>, 3)

(* the holding expression itself, or as the argument of a call foo(...) *)
Held ==
    {Hold(place, target) : place \in OperandPlaces, target \in Targets}
    \cup {Call(Name("foo"), <<Hold(place, target)>>, <<>>, 3) :
            place \in OperandPlaces, target \in Targets}

OperandBodies ==
    {<<ExprStmt(held)>> : held \in Held}
    \cup {<<Return(Some(held))>> : held \in Held}
    \cup {<<If(held, <<Pass>>, <<>>)>> : held \in Held}
    \cup {<<Assign(<<Name("x")>>, target)>> : target \in Targets}

InitOperand ==
    \E body \in OperandBodies :
        StartOneFile(<<FunctionDef("f1", <<Name("test")>>, body, 1)>>)

SpecOperand == InitOperand /\ [][Next]_vars

TheStatement == TheBody[1].body[1]

(* C28: an assertion chain that is an operand of a boolean, unary or       *)
(* comparison operator, of await or of a container literal, the value of   *)
(* a keyword argument, the receiver of a further method call or the value  *)
(* of an assignment is not in expected_assertions.                         *)
C28_OperandsAreNotScanned ==
    pc # "main" =>
        \A k \in 1..Len(FoundAssertions) :
            \A target \in Targets :
                FoundAssertions[k] # Unwrap(try_extract_assertion(target))

(* expect(v).outer(v, key=expect(v).m(1)): the outer chain is listed, the  *)
(* chain that is the keyword's value is not                                *)
C28_Witness ==
    /\ pc # "main"
    /\ TheStatement.kind = "Expr"
    /\ TheStatement.value.kind = "Call"
    /\ IsAssertion(TheStatement.value)
    /\ Len(TheStatement.value.keywords) = 1
    /\ TheStatement.value.keywords[1].kwvalue \in Targets
    /\ Len(FoundAssertions) = 1
    /\ FoundAssertions[1].matcher = "outer"

----------------------------------------------------------------------------
(* The Text backend in Quiet mode *)

IsQuiet == reporter.kind = "text" /\ reporter.verbosity = "quiet"

IsSeparator(piece) == piece.w = "blank"

LastCompletion == Completions[Len(Completions)]

(* C29: in Quiet mode on_test_complete of the Text backend writes no file  *)
(* header and no separator line, and leaves current_file at the file of    *)
(* the result it was given, whatever the outcome: after any sequence of    *)
(* callbacks current_file is the file of the most recent completion, and   *)
(* what a failed completion writes starts with its failure line.           *)
C29_QuietTracksFileWithoutHeaders ==
    /\ [](IsQuiet =>
            reporter.current_file
                = IF Completions = <<>> THEN None ELSE LastCompletion.test.file_path)
    /\ [][(IsQuiet /\ Completes) =>
            LET result == calls'[Len(calls')].result
            IN /\ reporter'.current_file = result.test.file_path
               /\ SelectSeq(Written, IsFileHeader) = <<>>
               /\ SelectSeq(Written, IsSeparator) = <<>>
               /\ result.outcome.status = "failed" =>
                    /\ Written # <<>>
                    /\ Written[1] = ResultLine("failed", result, TRUE)]_vars

(* a passed test of one file, then a failed test of another: the failure   *)
(* line is the only thing written and current_file is the second file      *)
C29_Witness ==
    /\ IsQuiet
    /\ Len(calls) = 2
    /\ Len(Completions) = 2
    /\ Completions[1].outcome.status = "passed"
    /\ Completions[1].test.file_path = Some(<<2>>)
    /\ Completions[2].outcome = Failed(<<"boom">>, <<>>)
    /\ Completions[2].test.file_path = Some(<<3>>)
    /\ reporter.current_file = Some(<<3>>)
    /\ output = <<ResultLine("failed", Completions[2], TRUE)>>

----------------------------------------------------------------------------
(* The tally line *)

TheTally == Appended[Len(Appended)]

(* C30: the tally line render_assertions writes for a non-empty list has   *)
(* its failed count equal to its total, the length of the list, also when  *)
(* fewer blocks than assertions have been written.                         *)
C30_TallyCountsEveryAssertion ==
    (pc = "rendered" /\ Rendered.assertions # <<>>) =>
        /\ Appended # <<>>
        /\ IsTally(TheTally)
        /\ TheTally.failed = Len(Rendered.assertions)
        /\ TheTally.total = Len(Rendered.assertions)

(* two assertions whose spans run past their expressions, under a handler  *)
(* that returns an error for them: no block, and a tally of 2/2            *)
C30_Witness ==
    /\ pc = "rendered"
    /\ renderer = "strict"
    /\ Len(Rendered.assertions) = 2
    /\ \A k \in 1..2 : ~SpanInSource(Rendered.assertions[k])
    /\ Appended = <<[w |-> "tally", failed |-> 2, total |-> 2]>>

====
